---- MODULE Spec2Model ----
(***************************************************************************)
(* A model of the AI Dream Journal Analyzer: the Streamlit page handlers   *)
(* of app.py acting on st.session_state.dreams, and the helpers of         *)
(* utils.py (validation, lucidity detection, export, statistics).          *)
(*                                                                         *)
(* Python strings are sequences of one-character strings, so that strip,   *)
(* lower, len, the substring test `k in s` and re.search are computed on   *)
(* characters.  Floats with one decimal are integers counting tenths.      *)
(***************************************************************************)
EXTENDS Integers, Sequences, FiniteSets, TLC

VARIABLES dreams, today, op, arg, ret

vars == <<dreams, today, op, arg, ret>>

(***************************************************************************)
(* Strings                                                                 *)
(***************************************************************************)

\* str.lower() on the ASCII letters.
LowerOf ==
    [c \in {"A","B","C","D","E","F","G","H","I","J","K","L","M",
            "N","O","P","Q","R","S","T","U","V","W","X","Y","Z"} |->
        CASE c = "A" -> "a" [] c = "B" -> "b" [] c = "C" -> "c" [] c = "D" -> "d"
          [] c = "E" -> "e" [] c = "F" -> "f" [] c = "G" -> "g" [] c = "H" -> "h"
          [] c = "I" -> "i" [] c = "J" -> "j" [] c = "K" -> "k" [] c = "L" -> "l"
          [] c = "M" -> "m" [] c = "N" -> "n" [] c = "O" -> "o" [] c = "P" -> "p"
          [] c = "Q" -> "q" [] c = "R" -> "r" [] c = "S" -> "s" [] c = "T" -> "t"
          [] c = "U" -> "u" [] c = "V" -> "v" [] c = "W" -> "w" [] c = "X" -> "x"
          [] c = "Y" -> "y" [] c = "Z" -> "z"]

LowerChar(c) == IF c \in DOMAIN LowerOf THEN LowerOf[c] ELSE c

Lower(s) == [i \in 1..Len(s) |-> LowerChar(s[i])]

\* The characters str.strip() removes and the regex class \s matches.
WhiteSpace == {" ", "\t", "\n", "\r"}

Digits == {"0","1","2","3","4","5","6","7","8","9"}

\* The regex class \w.
IsWordChar(c) ==
    \/ LowerChar(c) \in {"a","b","c","d","e","f","g","h","i","j","k","l","m",
                         "n","o","p","q","r","s","t","u","v","w","x","y","z"}
    \/ c \in Digits
    \/ c = "_"

\* s[i:i+len(k)] == k
MatchAt(k, s, i) ==
    /\ i + Len(k) - 1 <= Len(s)
    /\ \A j \in 1..Len(k) : s[i + j - 1] = k[j]

\* Python's `k in s` for strings.
Contains(k, s) == \E i \in 1..(Len(s) - Len(k) + 1) : MatchAt(k, s, i)

\* len(s.strip())
StripLen(s) ==
    IF \A i \in 1..Len(s) : s[i] \in WhiteSpace
    THEN 0
    ELSE LET first == CHOOSE i \in 1..Len(s) :
                        /\ s[i] \notin WhiteSpace
                        /\ \A j \in 1..(i - 1) : s[j] \in WhiteSpace
             last  == CHOOSE i \in 1..Len(s) :
                        /\ s[i] \notin WhiteSpace
                        /\ \A j \in (i + 1)..Len(s) : s[j] \in WhiteSpace
         IN  last - first + 1

\* c * n
Rep(c, n) == [i \in 1..n |-> c]

(***************************************************************************)
(* utils.py: DataValidator                                                 *)
(***************************************************************************)

MIN_DREAM_LENGTH == 10
MAX_DREAM_LENGTH == 5000

\* re.search(r'<script.*?>.*?</script>', text, re.IGNORECASE): `.` matches
\* every character but the newline.
SearchScript(text) ==
    LET t == Lower(text)
        open == <<"<","s","c","r","i","p","t">>
        close == <<"<","/","s","c","r","i","p","t",">">>
    IN  \E i \in 1..Len(t) :
          /\ MatchAt(open, t, i)
          /\ \E j \in (i + Len(open))..Len(t) :
               /\ t[j] = ">"
               /\ \A x \in (i + Len(open))..(j - 1) : t[x] # "\n"
               /\ \E k \in (j + 1)..Len(t) :
                    /\ MatchAt(close, t, k)
                    /\ \A x \in (j + 1)..(k - 1) : t[x] # "\n"

\* re.search(r'javascript:', text, re.IGNORECASE)
SearchJavascript(text) ==
    Contains(<<"j","a","v","a","s","c","r","i","p","t",":">>, Lower(text))

\* re.search(r'on\w+\s*=', text, re.IGNORECASE)
SearchEventHandler(text) ==
    LET t == Lower(text)
    IN  \E i \in 1..Len(t) :
          /\ MatchAt(<<"o","n">>, t, i)
          /\ \E j \in (i + 3)..Len(t) :
               /\ \A x \in (i + 2)..(j - 1) : IsWordChar(t[x])
               /\ \E k \in j..Len(t) :
                    /\ \A x \in j..(k - 1) : t[x] \in WhiteSpace
                    /\ t[k] = "="

Harmful(text) ==
    SearchScript(text) \/ SearchJavascript(text) \/ SearchEventHandler(text)

\* validate_dream_text with the minimum length excluded (<= for <).
validate_dream_text_min_excluded(text) ==
    IF Len(text) = 0 \/ StripLen(text) = 0
    THEN <<FALSE, "Dream text cannot be empty">>
    ELSE IF StripLen(text) <= MIN_DREAM_LENGTH
    THEN <<FALSE, "Dream description too short (minimum 10 characters)">>
    ELSE IF Len(text) > MAX_DREAM_LENGTH
    THEN <<FALSE, "Dream description too long (maximum 5000 characters)">>
    ELSE IF Harmful(text)
    THEN <<FALSE, "Invalid characters detected">>
    ELSE <<TRUE, "Valid">>

\* validate_dream_text with the maximum length excluded (>= for >).
validate_dream_text_max_excluded(text) ==
    IF Len(text) = 0 \/ StripLen(text) = 0
    THEN <<FALSE, "Dream text cannot be empty">>
    ELSE IF StripLen(text) < MIN_DREAM_LENGTH
    THEN <<FALSE, "Dream description too short (minimum 10 characters)">>
    ELSE IF Len(text) >= MAX_DREAM_LENGTH
    THEN <<FALSE, "Dream description too long (maximum 5000 characters)">>
    ELSE IF Harmful(text)
    THEN <<FALSE, "Invalid characters detected">>
    ELSE <<TRUE, "Valid">>

validate_dream_text(text) ==
    IF Len(text) = 0 \/ StripLen(text) = 0
    THEN <<FALSE, "Dream text cannot be empty">>
    ELSE IF StripLen(text) < MIN_DREAM_LENGTH
    THEN <<FALSE, "Dream description too short (minimum 10 characters)">>
    ELSE IF Len(text) > MAX_DREAM_LENGTH
    THEN <<FALSE, "Dream description too long (maximum 5000 characters)">>
    ELSE IF Harmful(text)
    THEN <<FALSE, "Invalid characters detected">>
    ELSE <<TRUE, "Valid">>

(***************************************************************************)
(* The validator on its own: the inputs are drawn at the start, and the    *)
(* one step applies the validator to them.                                 *)
(***************************************************************************)

\* How far around 0, MIN_DREAM_LENGTH and MAX_DREAM_LENGTH the lengths go.
Slack == 2

FillLens ==
    (0..Slack)
      \cup ((MIN_DREAM_LENGTH - Slack)..(MIN_DREAM_LENGTH + Slack))
      \cup ((MAX_DREAM_LENGTH - Slack)..(MAX_DREAM_LENGTH + Slack))

TextHeads == { <<>>, <<" ">>, <<"\t","\n">>, <<"I"," ">> }

TextFills == { "z", " ", "A" }

TextTails ==
    { <<>>, <<" ">>, <<" ","O","N","l","o","a","d"," ","=">>,
      <<"J","a","v","a","S","c","r","i","p","t",":">> }

ValidatorTexts ==
    { h \o Rep(f, n) \o t : h \in TextHeads, f \in TextFills,
                             n \in FillLens, t \in TextTails }

InitValidator ==
    /\ dreams = <<>>
    /\ today = 0
    /\ op = "input"
    /\ arg \in ValidatorTexts
    /\ ret = <<>>

ValidateDreamText ==
    /\ op = "input"
    /\ op' = "validate_dream_text"
    /\ ret' = validate_dream_text(arg)
    /\ UNCHANGED <<dreams, today, arg>>

NextValidator == ValidateDreamText

SpecValidator == InitValidator /\ [][NextValidator]_vars

EMPTY == <<FALSE, "Dream text cannot be empty">>
TOO_SHORT == <<FALSE, "Dream description too short (minimum 10 characters)">>
TOO_LONG == <<FALSE, "Dream description too long (maximum 5000 characters)">>
UNSAFE == <<FALSE, "Invalid characters detected">>
VALID == <<TRUE, "Valid">>

\* C5 as stated: every text of trimmed length below 10 fails with TOO_SHORT,
\* and every text of exactly 10 characters passes.
C5_AsStated ==
    op = "validate_dream_text" =>
        /\ (StripLen(arg) < MIN_DREAM_LENGTH => ret = TOO_SHORT)
        /\ (Len(arg) = MIN_DREAM_LENGTH => ret = VALID)

\* C5, amended: a text that is not blank and whose trimmed length is below 10
\* fails with TOO_SHORT (a blank one fails with EMPTY); a text whose trimmed
\* length is exactly 10, that is at most 5000 characters long and matches no
\* unsafe pattern, passes.
C5_TooShort ==
    op = "validate_dream_text" =>
        /\ (StripLen(arg) = 0 => ret = EMPTY)
        /\ (StripLen(arg) > 0 /\ StripLen(arg) < MIN_DREAM_LENGTH
               => ret = TOO_SHORT)
        /\ (StripLen(arg) = MIN_DREAM_LENGTH /\ Len(arg) <= MAX_DREAM_LENGTH
               /\ ~Harmful(arg) => ret = VALID)

\* A text of trimmed length 9 between white space was rejected as too short.
C5_Witness ==
    /\ op = "validate_dream_text"
    /\ StripLen(arg) = MIN_DREAM_LENGTH - 1
    /\ Len(arg) > MIN_DREAM_LENGTH
    /\ ret = TOO_SHORT

\* C6 as stated: every text longer than 5000 characters fails with TOO_LONG,
\* and every text of exactly 5000 characters passes.
C6_AsStated ==
    op = "validate_dream_text" =>
        /\ (Len(arg) > MAX_DREAM_LENGTH => ret = TOO_LONG)
        /\ (Len(arg) = MAX_DREAM_LENGTH => ret = VALID)

\* C6, amended: a text longer than 5000 characters whose trimmed length is at
\* least 10 fails with TOO_LONG (the blank and the too-short checks come
\* first); a text of exactly 5000 characters whose trimmed length is at least
\* 10 and that matches no unsafe pattern passes.
C6_TooLong ==
    op = "validate_dream_text" =>
        /\ (Len(arg) > MAX_DREAM_LENGTH /\ StripLen(arg) >= MIN_DREAM_LENGTH
               => ret = TOO_LONG)
        /\ (Len(arg) = MAX_DREAM_LENGTH /\ StripLen(arg) >= MIN_DREAM_LENGTH
               /\ ~Harmful(arg) => ret = VALID)

\* A text of exactly 5001 characters was rejected as too long.
C6_Witness ==
    /\ op = "validate_dream_text"
    /\ Len(arg) = MAX_DREAM_LENGTH + 1
    /\ ret = TOO_LONG

(***************************************************************************)
(* app.py: DreamAnalyzer; utils.py: AdvancedAnalyzer                       *)
(***************************************************************************)

\* The labels, as Python strings.
joy == <<"j","o","y">>
fear == <<"f","e","a","r">>
anger == <<"a","n","g","e","r">>
sadness == <<"s","a","d","n","e","s","s">>
anxiety == <<"a","n","x","i","e","t","y">>
love == <<"l","o","v","e">>
surprise == <<"s","u","r","p","r","i","s","e">>
neutral == <<"n","e","u","t","r","a","l">>
unknown == <<"u","n","k","n","o","w","n">>
flying == <<"f","l","y","i","n","g">>
falling == <<"f","a","l","l","i","n","g">>
chase == <<"c","h","a","s","e">>
water == <<"w","a","t","e","r">>
animals == <<"a","n","i","m","a","l","s">>
death == <<"d","e","a","t","h">>
school == <<"s","c","h","o","o","l">>
work == <<"w","o","r","k">>
family == <<"f","a","m","i","l","y">>

\* get_dominant_emotion's table, in the order the dict literal declares.
emotion_keywords ==
    <<
      [name |-> joy,
       keywords |-> << <<"h","a","p","p","y">>,
                       <<"j","o","y">>,
                       <<"e","x","c","i","t","e","d">>,
                       <<"w","o","n","d","e","r","f","u","l">>,
                       <<"a","m","a","z","i","n","g">>,
                       <<"g","r","e","a","t">>,
                       <<"l","o","v","e">> >>],
      [name |-> fear,
       keywords |-> << <<"s","c","a","r","e","d">>,
                       <<"a","f","r","a","i","d">>,
                       <<"t","e","r","r","i","f","i","e","d">>,
                       <<"n","i","g","h","t","m","a","r","e">>,
                       <<"h","o","r","r","o","r">>,
                       <<"p","a","n","i","c">> >>],
      [name |-> anger,
       keywords |-> << <<"a","n","g","r","y">>,
                       <<"m","a","d">>,
                       <<"f","u","r","i","o","u","s">>,
                       <<"r","a","g","e">>,
                       <<"a","n","n","o","y","e","d">>,
                       <<"f","r","u","s","t","r","a","t","e","d">> >>],
      [name |-> sadness,
       keywords |-> << <<"s","a","d">>,
                       <<"d","e","p","r","e","s","s","e","d">>,
                       <<"c","r","y","i","n","g">>,
                       <<"t","e","a","r","s">>,
                       <<"l","o","n","e","l","y">>,
                       <<"g","r","i","e","f">> >>],
      [name |-> anxiety,
       keywords |-> << <<"w","o","r","r","i","e","d">>,
                       <<"a","n","x","i","o","u","s">>,
                       <<"n","e","r","v","o","u","s">>,
                       <<"s","t","r","e","s","s">>,
                       <<"t","e","n","s","i","o","n">>,
                       <<"u","n","e","a","s","y">> >>]
    >>

\* extract_themes's table, in the order the dict literal declares.
theme_keywords ==
    <<
      [name |-> flying,
       keywords |-> << <<"f","l","y">>,
                       <<"f","l","y","i","n","g">>,
                       <<"s","o","a","r">>,
                       <<"w","i","n","g","s">>,
                       <<"a","i","r">>,
                       <<"s","k","y">> >>],
      [name |-> falling,
       keywords |-> << <<"f","a","l","l">>,
                       <<"f","a","l","l","i","n","g">>,
                       <<"d","r","o","p">>,
                       <<"c","l","i","f","f">>,
                       <<"h","e","i","g","h","t">> >>],
      [name |-> chase,
       keywords |-> << <<"c","h","a","s","e">>,
                       <<"r","u","n">>,
                       <<"e","s","c","a","p","e">>,
                       <<"p","u","r","s","u","e">>,
                       <<"f","o","l","l","o","w">> >>],
      [name |-> water,
       keywords |-> << <<"w","a","t","e","r">>,
                       <<"o","c","e","a","n">>,
                       <<"r","i","v","e","r">>,
                       <<"s","w","i","m">>,
                       <<"d","r","o","w","n">>,
                       <<"f","l","o","o","d">> >>],
      [name |-> animals,
       keywords |-> << <<"d","o","g">>,
                       <<"c","a","t">>,
                       <<"b","i","r","d">>,
                       <<"s","n","a","k","e">>,
                       <<"l","i","o","n">>,
                       <<"a","n","i","m","a","l">> >>],
      [name |-> death,
       keywords |-> << <<"d","e","a","t","h">>,
                       <<"d","i","e">>,
                       <<"d","e","a","d">>,
                       <<"f","u","n","e","r","a","l">>,
                       <<"g","r","a","v","e">> >>],
      [name |-> school,
       keywords |-> << <<"s","c","h","o","o","l">>,
                       <<"t","e","a","c","h","e","r">>,
                       <<"e","x","a","m">>,
                       <<"c","l","a","s","s","r","o","o","m">>,
                       <<"s","t","u","d","e","n","t">> >>],
      [name |-> work,
       keywords |-> << <<"w","o","r","k">>,
                       <<"o","f","f","i","c","e">>,
                       <<"b","o","s","s">>,
                       <<"m","e","e","t","i","n","g">>,
                       <<"j","o","b">> >>],
      [name |-> family,
       keywords |-> << <<"m","o","t","h","e","r">>,
                       <<"f","a","t","h","e","r">>,
                       <<"f","a","m","i","l","y">>,
                       <<"p","a","r","e","n","t">>,
                       <<"s","i","b","l","i","n","g">> >>]
    >>

\* detect_lucidity_indicators's list.
lucidity_keywords ==
    << <<"r","e","a","l","i","z","e","d">>,
       <<"a","w","a","r","e">>,
       <<"c","o","n","s","c","i","o","u","s">>,
       <<"c","o","n","t","r","o","l">>,
       <<"l","u","c","i","d">>,
       <<"k","n","e","w"," ","i"," ","w","a","s"," ","d","r","e","a","m","i","n","g">>,
       <<"r","e","a","l","i","t","y"," ","c","h","e","c","k">>,
       <<"d","r","e","a","m"," ","s","i","g","n">> >>


\* sum(1 for keyword in keywords if keyword in text_lower)
Score(keywords, text_lower) ==
    Cardinality({i \in 1..Len(keywords) : Contains(keywords[i], text_lower)})

\* emotion_scores, indexed as emotion_keywords is.
emotion_scores(text) ==
    [i \in 1..Len(emotion_keywords) |->
        Score(emotion_keywords[i].keywords, Lower(text))]

\* max(values)
MaxOf(f) == CHOOSE v \in {f[i] : i \in DOMAIN f} : \A i \in DOMAIN f : f[i] <= v

\* Python's max(d, key=d.get): one pass in the dict's order that replaces the
\* best key only by a strictly greater one.
RECURSIVE PyMaxKey(_, _, _)
PyMaxKey(score, i, best) ==
    IF i > Len(score) THEN best
    ELSE PyMaxKey(score, i + 1, IF score[i] > score[best] THEN i ELSE best)

\* The same pass replacing the best key by a greater or equal one.
get_dominant_emotion_last_wins(text) ==
    LET score == emotion_scores(text)
        last == CHOOSE i \in DOMAIN score :
                  /\ score[i] = MaxOf(score)
                  /\ \A j \in DOMAIN score : score[j] = MaxOf(score) => j <= i
    IN  IF MaxOf(score) > 0 THEN emotion_keywords[last].name ELSE neutral

get_dominant_emotion(text) ==
    LET score == emotion_scores(text)
    IN  IF MaxOf(score) > 0
        THEN emotion_keywords[PyMaxKey(score, 2, 1)].name
        ELSE neutral

\* The elements list[i] with hit[i], in the list's order: what a loop over
\* the list appending on a condition builds.
RECURSIVE Filter(_, _, _)
Filter(list, hit, i) ==
    IF i > Len(list) THEN <<>>
    ELSE (IF hit[i] THEN <<list[i]>> ELSE <<>>) \o Filter(list, hit, i + 1)

\* The loop of extract_themes over theme_keywords.
found_themes(text_lower) ==
    LET names == [i \in 1..Len(theme_keywords) |-> theme_keywords[i].name]
        found == [i \in 1..Len(theme_keywords) |->
                    \E k \in 1..Len(theme_keywords[i].keywords) :
                       Contains(theme_keywords[i].keywords[k], text_lower)]
    IN  Filter(names, found, 1)

\* names[i] repeated count[i] times, name after name.
RECURSIVE RepeatEach(_, _, _)
RepeatEach(names, count, i) ==
    IF i > Len(names) THEN <<>>
    ELSE Rep(names[i], count[i]) \o RepeatEach(names, count, i + 1)

\* extract_themes appending the theme once per keyword found, not once per
\* theme.
extract_themes_per_keyword(text) ==
    LET names == [i \in 1..Len(theme_keywords) |-> theme_keywords[i].name]
        count == [i \in 1..Len(theme_keywords) |->
                    Score(theme_keywords[i].keywords, Lower(text))]
    IN  RepeatEach(names, count, 1)

extract_themes(text) == found_themes(Lower(text))

Min2(a, b) == IF a <= b THEN a ELSE b

\* probability is in tenths: min(1.0, n * 0.3) is Min2(10, n * 3), which
\* round(..., 2) leaves as it is, and > 0.5 is > 5.
\* detect_lucidity_indicators without the cap at 1.0.
detect_lucidity_indicators_uncapped(text) ==
    LET text_lower == Lower(text)
        present == [i \in 1..Len(lucidity_keywords) |->
                      Contains(lucidity_keywords[i], text_lower)]
        indicators_found == Filter(lucidity_keywords, present, 1)
        lucidity_probability == Len(indicators_found) * 3
    IN  [indicators |-> indicators_found,
         probability |-> lucidity_probability,
         likely_lucid |-> lucidity_probability > 5]

detect_lucidity_indicators(text) ==
    LET text_lower == Lower(text)
        present == [i \in 1..Len(lucidity_keywords) |->
                      Contains(lucidity_keywords[i], text_lower)]
        indicators_found == Filter(lucidity_keywords, present, 1)
        lucidity_probability == Min2(10, Len(indicators_found) * 3)
    IN  [indicators |-> indicators_found,
         probability |-> lucidity_probability,
         likely_lucid |-> lucidity_probability > 5]

(***************************************************************************)
(* The analyzers on their own: a text is drawn at the start, and each step *)
(* applies one analyzer to it.                                             *)
(***************************************************************************)

\* The longest text, in words.
MaxWords == 3

AnalyzerWords ==
    { <<"H","a","p","p","y">>,
      <<"e","n","j","o","y","e","d">>,
      <<"s","c","a","r","e","d">>,
      <<"p","a","n","i","c">>,
      <<"m","a","d">>,
      <<"s","a","d">>,
      <<"u","n","e","a","s","y">>,
      <<"l","u","c","i","d">>,
      <<"a","w","a","r","e">>,
      <<"f","l","y","i","n","g">>,
      <<"o","c","e","a","n">>,
      <<"t","o","o","k"," ","c","o","n","t","r","o","l"," ","c","o","n","s","c","i","o","u","s","l","y">> }

RECURSIVE Join(_)
Join(ws) ==
    IF Len(ws) = 0 THEN <<>>
    ELSE IF Len(ws) = 1 THEN ws[1]
    ELSE ws[1] \o <<" ">> \o Join(Tail(ws))

AnalyzerTexts ==
    { Join(ws) : ws \in UNION { [1..n -> AnalyzerWords] : n \in 0..MaxWords } }

InitAnalyzer ==
    /\ dreams = <<>>
    /\ today = 0
    /\ op = "input"
    /\ arg \in AnalyzerTexts
    /\ ret = <<>>

GetDominantEmotion ==
    /\ op = "input"
    /\ op' = "get_dominant_emotion"
    /\ ret' = get_dominant_emotion(arg)
    /\ UNCHANGED <<dreams, today, arg>>

ExtractThemes ==
    /\ op = "input"
    /\ op' = "extract_themes"
    /\ ret' = extract_themes(arg)
    /\ UNCHANGED <<dreams, today, arg>>

DetectLucidityIndicators ==
    /\ op = "input"
    /\ op' = "detect_lucidity_indicators"
    /\ ret' = detect_lucidity_indicators(arg)
    /\ UNCHANGED <<dreams, today, arg>>

NextAnalyzer ==
    \/ GetDominantEmotion
    \/ ExtractThemes
    \/ DetectLucidityIndicators

SpecAnalyzer == InitAnalyzer /\ [][NextAnalyzer]_vars

\* The emotion order the claim declares.
DeclaredOrder == <<joy, fear, anger, sadness, anxiety>>

\* The keyword-hit score of the emotion the claim's order puts at place i.
DeclaredScore(text, i) ==
    LET e == CHOOSE x \in 1..Len(emotion_keywords) :
                 emotion_keywords[x].name = DeclaredOrder[i]
    IN  emotion_scores(text)[e]

\* C7: get_dominant_emotion returns the first emotion, in the order joy, fear,
\* anger, sadness, anxiety, whose keyword-hit score is the maximum; it returns
\* neutral exactly when every score is 0; and a text where joy and fear tie at
\* the maximum nonzero score resolves to joy.
C7_StableArgmax ==
    op = "get_dominant_emotion" =>
        LET n == Len(DeclaredOrder)
            top == CHOOSE v \in {DeclaredScore(arg, i) : i \in 1..n} :
                      \A i \in 1..n : DeclaredScore(arg, i) <= v
        IN  /\ (ret = neutral <=> \A i \in 1..n : DeclaredScore(arg, i) = 0)
            /\ top > 0 =>
                 \E i \in 1..n :
                    /\ ret = DeclaredOrder[i]
                    /\ DeclaredScore(arg, i) = top
                    /\ \A j \in 1..(i - 1) : DeclaredScore(arg, j) < top
            /\ (top > 0 /\ DeclaredScore(arg, 1) = top /\ DeclaredScore(arg, 2) = top
                  => ret = joy)

\* A text where joy and fear tie at the maximum, one hit each, resolved to joy.
C7_Witness ==
    /\ op = "get_dominant_emotion"
    /\ DeclaredScore(arg, 1) = 1
    /\ DeclaredScore(arg, 2) = 1
    /\ \A i \in 3..Len(DeclaredOrder) : DeclaredScore(arg, i) <= 1
    /\ ret = joy

\* The number of distinct indicator phrases the text holds.
IndicatorMatches(text) ==
    Cardinality({ lucidity_keywords[i] : i \in
                    { x \in 1..Len(lucidity_keywords) :
                        Contains(lucidity_keywords[x], Lower(text)) } })

\* C10: with m the number of distinct indicator phrases found, probability is
\* min(1.0, 0.3 * m) (in tenths: the smaller of 10 and 3 * m), likely_lucid is
\* true exactly when m >= 2, one match gives 0.3 and not likely lucid, and the
\* probability never exceeds 1.0.
C10_Lucidity ==
    op = "detect_lucidity_indicators" =>
        LET m == IndicatorMatches(arg)
        IN  /\ ret.probability = (IF 3 * m < 10 THEN 3 * m ELSE 10)
            /\ ret.likely_lucid <=> (m >= 2)
            /\ (m = 1 => ret.probability = 3 /\ ~ret.likely_lucid)
            /\ ret.probability <= 10

\* A text holding four indicator phrases got the capped probability 1.0.
C10_Witness ==
    /\ op = "detect_lucidity_indicators"
    /\ IndicatorMatches(arg) = 4
    /\ ret.probability = 10
    /\ ret.likely_lucid

(***************************************************************************)
(* Dates: a datetime.date is its proleptic Gregorian ordinal (toordinal()) *)
(***************************************************************************)

IsLeap(y) == (y % 4 = 0) /\ ((y % 100 # 0) \/ (y % 400 = 0))

DaysInMonth(y, m) ==
    IF m = 2 THEN (IF IsLeap(y) THEN 29 ELSE 28)
    ELSE IF m \in {4, 6, 9, 11} THEN 30 ELSE 31

RECURSIVE DaysBeforeMonth(_, _)
DaysBeforeMonth(y, m) ==
    IF m = 1 THEN 0 ELSE DaysBeforeMonth(y, m - 1) + DaysInMonth(y, m - 1)

DaysBeforeYear(y) ==
    ((y - 1) * 365) + ((y - 1) \div 4) - ((y - 1) \div 100) + ((y - 1) \div 400)

\* date(y, m, d).toordinal()
Ymd2Ord(y, m, d) == DaysBeforeYear(y) + DaysBeforeMonth(y, m) + d

\* The year, month and day of an ordinal.
Ord2Ymd(n) ==
    LET y == CHOOSE x \in ((n \div 366) - 1)..((n \div 365) + 1) :
                 DaysBeforeYear(x) < n /\ n <= DaysBeforeYear(x + 1)
        m == CHOOSE x \in 1..12 :
                 /\ DaysBeforeMonth(y, x) < n - DaysBeforeYear(y)
                 /\ n - DaysBeforeYear(y) <= DaysBeforeMonth(y, x) + DaysInMonth(y, x)
    IN  [year |-> y, month |-> m, day |-> n - DaysBeforeYear(y) - DaysBeforeMonth(y, m)]

DigitChars == <<"0","1","2","3","4","5","6","7","8","9">>

\* The decimal digits of n >= 0, zero-padded to at least `width` characters.
RECURSIVE Pad(_, _)
Pad(n, width) ==
    IF n < 10 /\ width <= 1 THEN <<DigitChars[n + 1]>>
    ELSE Pad(n \div 10, width - 1) \o <<DigitChars[(n % 10) + 1]>>

\* str(n) for an integer.
IntStr(n) == IF n < 0 THEN <<"-">> \o Pad(0 - n, 1) ELSE Pad(n, 1)

\* dream_date.strftime('%Y-%m-%d')
strftime(date) ==
    LET c == Ord2Ymd(date)
    IN  Pad(c.year, 4) \o <<"-">> \o Pad(c.month, 2) \o <<"-">> \o Pad(c.day, 2)

DigitValue(c) == CHOOSE d \in 0..9 : DigitChars[d + 1] = c

RECURSIVE ParseInt(_)
ParseInt(s) ==
    IF Len(s) = 0 THEN 0
    ELSE (ParseInt(SubSeq(s, 1, Len(s) - 1)) * 10) + DigitValue(s[Len(s)])

\* The date a 'YYYY-MM-DD' string names (pd.to_datetime, date.fromisoformat).
ParseDate(s) ==
    Ymd2Ord(ParseInt(SubSeq(s, 1, 4)), ParseInt(SubSeq(s, 6, 7)),
            ParseInt(SubSeq(s, 9, 10)))

MAX_DATE_PAST_DAYS == 3650

\* A datetime.date as a Python value with its type.
PyDate(n) == [type |-> "date", value |-> n]

\* validate_date without the equality of its second comparison: exactly 3650
\* days back is too old.
validate_date_oldest_excluded(date_obj, now, now_again) ==
    IF date_obj.type # "date"
    THEN <<FALSE, "Invalid date format">>
    ELSE IF date_obj.value > now
    THEN <<FALSE, "Dream date cannot be in the future">>
    ELSE IF now_again - date_obj.value >= MAX_DATE_PAST_DAYS
    THEN <<FALSE, "Dream date too far in the past">>
    ELSE <<TRUE, "Valid">>

\* validate_date: `now` is datetime.now().date() as the first comparison reads
\* it and `now_again` as the second reads it. Comparing anything but a date
\* with a date raises TypeError, which the except clause turns into the
\* "Invalid date format: ..." result.
validate_date(date_obj, now, now_again) ==
    IF date_obj.type # "date"
    THEN <<FALSE, "Invalid date format">>
    ELSE IF date_obj.value > now
    THEN <<FALSE, "Dream date cannot be in the future">>
    ELSE IF now_again - date_obj.value > MAX_DATE_PAST_DAYS
    THEN <<FALSE, "Dream date too far in the past">>
    ELSE <<TRUE, "Valid">>

MIN_SLEEP_QUALITY == 1
MAX_SLEEP_QUALITY == 10

\* A Python value with its type: PyInt(7) is 7, and a float, a string or None
\* are values of the types "float", "str" and "NoneType".
PyInt(n) == [type |-> "int", value |-> n]

\* bool is a subclass of int: True is 1 and False is 0.
PyBool(b) == [type |-> "bool", value |-> IF b THEN 1 ELSE 0]

\* isinstance(v, int)
IsInstanceInt(v) == v.type \in {"int", "bool"}

validate_sleep_quality(quality) ==
    IF ~IsInstanceInt(quality)
    THEN <<FALSE, "Sleep quality must be a number">>
    ELSE IF quality.value < MIN_SLEEP_QUALITY \/ quality.value > MAX_SLEEP_QUALITY
    THEN <<FALSE, "Sleep quality must be between 1 and 10">>
    ELSE <<TRUE, "Valid">>

(***************************************************************************)
(* app.py: the session's store and the page handlers of main()             *)
(***************************************************************************)

\* len(text.split()): the maximal runs of characters that are not white space.
WordCount(text) ==
    Cardinality({i \in 1..Len(text) :
                   /\ text[i] \notin WhiteSpace
                   /\ (i = 1 \/ text[i - 1] \in WhiteSpace)})

\* analyze_sentiment: TextBlob gives the polarity and the subjectivity (in
\* tenths), the keyword table gives the emotion.
analyze_sentiment(text, blob) ==
    [polarity |-> blob.polarity,
     subjectivity |-> blob.subjectivity,
     emotion |-> get_dominant_emotion(text)]

\* The dream_entry dict literal.
EntryDict(dream_text, dream_date, lucid, sleep_quality, sentiment, themes) ==
    [date |-> strftime(dream_date),
     text |-> dream_text,
     polarity |-> sentiment.polarity,
     subjectivity |-> sentiment.subjectivity,
     emotion |-> sentiment.emotion,
     themes |-> themes,
     lucid |-> lucid,
     sleep_quality |-> sleep_quality,
     word_count |-> WordCount(dream_text)]

\* dream_entry with the two lucidity signals merged: lucid is the checkbox or
\* the detector's estimate.
dream_entry_lucidity_merged(dream_text, dream_date, lucid, sleep_quality, blob) ==
    EntryDict(dream_text, dream_date,
              lucid \/ detect_lucidity_indicators(dream_text).likely_lucid,
              sleep_quality,
              analyze_sentiment(dream_text, blob), extract_themes(dream_text))

\* The record "Analyze & Save Dream" builds from the widgets' values.
dream_entry(dream_text, dream_date, lucid, sleep_quality, blob) ==
    EntryDict(dream_text, dream_date, lucid, sleep_quality,
              analyze_sentiment(dream_text, blob), extract_themes(dream_text))

\* The keys of dream_entry in the order the dict literal gives them.
entry_keys ==
    <<"date", "text", "polarity", "subjectivity", "emotion", "themes", "lucid",
      "sleep_quality", "word_count">>

RECURSIVE Gcd(_, _)
Gcd(a, b) == IF b = 0 THEN a ELSE Gcd(b, a % b)

Abs(n) == IF n < 0 THEN 0 - n ELSE n

\* The quotient n / d of a float division with d > 0, kept exact.
Ratio(n, d) ==
    LET g == Gcd(Abs(n), d)
    IN  [num |-> n \div g, den |-> d \div g]

RECURSIVE SumOver(_, _)
SumOver(f, i) == IF i > Len(f) THEN 0 ELSE f[i] + SumOver(f, i + 1)

\* df[column] as a list.
Column(df, column) == [i \in 1..Len(df) |-> df[i][column]]

\* df['lucid'].count(): the rows that have a lucid flag, whatever it is.
LucidSum_as_count(df) == Cardinality({i \in 1..Len(df) : df[i].lucid \in BOOLEAN})

\* df['lucid'].sum()
LucidSum(df) == Cardinality({i \in 1..Len(df) : df[i].lucid})

\* df.tail(n)
DfTail(df, n) ==
    IF Len(df) <= n THEN df ELSE SubSeq(df, Len(df) - n + 1, Len(df))

\* The concatenation of a list of lists (extend in a loop).
RECURSIVE Flatten(_)
Flatten(lists) ==
    IF Len(lists) = 0 THEN <<>> ELSE lists[1] \o Flatten(Tail(lists))

\* The keys of Counter(list), in the order of their first occurrence.
RECURSIVE CounterKeys(_)
CounterKeys(list) ==
    IF Len(list) = 0 THEN <<>>
    ELSE LET before == CounterKeys(SubSeq(list, 1, Len(list) - 1))
             x == list[Len(list)]
         IN  IF \E i \in 1..Len(before) : before[i] = x
             THEN before ELSE Append(before, x)

\* Counter(list).most_common(1)[0][0]: the first key, in the order of first
\* occurrence, with the greatest count.
MostCommon(list) ==
    LET keys == CounterKeys(list)
        count == [k \in 1..Len(keys) |->
                    Cardinality({i \in 1..Len(list) : list[i] = keys[k]})]
    IN  keys[PyMaxKey(count, 2, 1)]

NeedMoreDreams ==
    <<"N","e","e","d"," ","m","o","r","e"," ","d","r","e","a","m","s"," ","f","o","r"," ","p","r","e","d","i","c","t","i","o","n">>

LikelyEmotion ==
    <<"L","i","k","e","l","y"," ","e","m","o","t","i","o","n",":"," ">>

LikelyTheme ==
    <<","," ","L","i","k","e","l","y"," ","t","h","e","m","e",":"," ">>

MIN_DREAMS_FOR_PREDICTION == 3
PREDICTION_WINDOW == 5

\* predict_next_dream asking for one record more than the page does.
predict_next_dream_off_by_one(dreams_df) ==
    IF Len(dreams_df) <= MIN_DREAMS_FOR_PREDICTION
    THEN NeedMoreDreams
    ELSE LET recent_emotions == Column(DfTail(dreams_df, PREDICTION_WINDOW), "emotion")
             recent_themes == Flatten(Column(DfTail(dreams_df, PREDICTION_WINDOW), "themes"))
             predicted_emotion == IF Len(recent_emotions) > 0
                                  THEN MostCommon(recent_emotions) ELSE neutral
             predicted_theme == IF Len(recent_themes) > 0
                                THEN MostCommon(recent_themes) ELSE unknown
         IN  LikelyEmotion \o predicted_emotion \o LikelyTheme \o predicted_theme

\* predict_next_dream counting over every record instead of the last five.
predict_next_dream_whole_history(dreams_df) ==
    IF Len(dreams_df) < MIN_DREAMS_FOR_PREDICTION
    THEN NeedMoreDreams
    ELSE LET recent_emotions == Column(dreams_df, "emotion")
             recent_themes == Flatten(Column(dreams_df, "themes"))
             predicted_emotion == IF Len(recent_emotions) > 0
                                  THEN MostCommon(recent_emotions) ELSE neutral
             predicted_theme == IF Len(recent_themes) > 0
                                THEN MostCommon(recent_themes) ELSE unknown
         IN  LikelyEmotion \o predicted_emotion \o LikelyTheme \o predicted_theme

predict_next_dream(dreams_df) ==
    IF Len(dreams_df) < MIN_DREAMS_FOR_PREDICTION
    THEN NeedMoreDreams
    ELSE LET recent_emotions == Column(DfTail(dreams_df, PREDICTION_WINDOW), "emotion")
             recent_themes == Flatten(Column(DfTail(dreams_df, PREDICTION_WINDOW), "themes"))
             predicted_emotion == IF Len(recent_emotions) > 0
                                  THEN MostCommon(recent_emotions) ELSE neutral
             predicted_theme == IF Len(recent_themes) > 0
                                THEN MostCommon(recent_themes) ELSE unknown
         IN  LikelyEmotion \o predicted_emotion \o LikelyTheme \o predicted_theme

\* The weekday of a date, Monday = 0 (dt.day_name()).
Weekday(date) == (date + 6) % 7

\* df.groupby('weekday')['polarity'].mean().reindex(Monday..Sunday): a weekday
\* with no record has no mean (NaN).
WeekdaySentiment(df) ==
    [w \in 0..6 |->
        LET rows == {i \in 1..Len(df) : Weekday(ParseDate(df[i].date)) = w}
            polarity == [i \in 1..Len(df) |-> IF i \in rows THEN df[i].polarity ELSE 0]
        IN  IF rows = {} THEN "NaN"
            ELSE Ratio(SumOver(polarity, 1), Cardinality(rows))]

\* The band of the recommendation: the mean polarity against -0.1 and 0.1
\* (polarity is in tenths, so the sum against -n and n).
Recommendation(df) ==
    LET total == SumOver(Column(df, "polarity"), 1)
    IN  IF total < 0 - Len(df) THEN "negative"
        ELSE IF total > Len(df) THEN "positive"
        ELSE "balanced"

\* The most records a session stores.
MaxDreams == 3

\* What the user can type as a dream: nothing, a text too short for the
\* validator, and a text with emotion, theme and lucidity keywords.
AppTexts ==
    { <<>>,
      <<"h","i">>,
      <<"I"," ","w","a","s"," ","l","u","c","i","d"," ","a","n","d"," ","a","w","a","r","e",","," ","H","a","p","p","y"," ","f","l","y","i","n","g">> }

\* The dates st.date_input offers, as offsets from today: today and tomorrow.
DateOffsets == {0, 1}

\* The slider's values used: its default.
SliderValues == {7}

\* What TextBlob does with a text: it returns a polarity and a subjectivity
\* (0.8 and 0.5), or it raises.
BlobOutcomes ==
    { [raised |-> FALSE, polarity |-> 8, subjectivity |-> 5],
      [raised |-> TRUE] }

TodayChoices == { Ymd2Ord(2025, 1, 15) }

Init ==
    /\ dreams = <<>>
    /\ today \in TodayChoices
    /\ op = "start"
    /\ arg = <<>>
    /\ ret = <<>>

\* "Analyze & Save Dream" without the test of the text: an empty text is
\* analyzed and saved as any other.
AnalyzeAndSave_unguarded ==
    \E dream_text \in AppTexts, offset \in DateOffsets, lucid \in BOOLEAN,
       sleep_quality \in SliderValues, blob \in BlobOutcomes :
        /\ Len(dreams) < MaxDreams
        /\ op' = "Analyze & Save Dream"
        /\ arg' = [dream_text |-> dream_text, dream_date |-> today + offset,
                   lucid |-> lucid, sleep_quality |-> sleep_quality, blob |-> blob]
        /\ IF blob.raised
           THEN /\ ret' = [kind |-> "exception"]
                /\ UNCHANGED dreams
           ELSE \E entry \in {dream_entry(dream_text, today + offset, lucid,
                                          sleep_quality, blob)} :
                    /\ dreams' = Append(dreams, entry)
                    /\ ret' = [kind |-> "success",
                               message |-> "Dream analyzed and saved!",
                               emotion |-> entry.emotion,
                               sentiment |-> entry.polarity,
                               themes_found |-> Len(entry.themes)]
        /\ UNCHANGED today

\* The "Add Dream" page with the "Analyze & Save Dream" button pressed.
AnalyzeAndSave ==
    \E dream_text \in AppTexts, offset \in DateOffsets, lucid \in BOOLEAN,
       sleep_quality \in SliderValues, blob \in BlobOutcomes :
        /\ Len(dreams) < MaxDreams
        /\ op' = "Analyze & Save Dream"
        /\ arg' = [dream_text |-> dream_text, dream_date |-> today + offset,
                   lucid |-> lucid, sleep_quality |-> sleep_quality, blob |-> blob]
        /\ IF Len(dream_text) = 0
           THEN /\ ret' = [kind |-> "error",
                           message |-> "Please enter a dream description!"]
                /\ UNCHANGED dreams
           ELSE IF blob.raised
           THEN \* TextBlob's exception leaves main(): nothing catches it.
                /\ ret' = [kind |-> "exception"]
                /\ UNCHANGED dreams
           ELSE \E entry \in {dream_entry(dream_text, today + offset, lucid,
                                          sleep_quality, blob)} :
                    /\ dreams' = Append(dreams, entry)
                    /\ ret' = [kind |-> "success",
                               message |-> "Dream analyzed and saved!",
                               emotion |-> entry.emotion,
                               sentiment |-> entry.polarity,
                               themes_found |-> Len(entry.themes)]
        /\ UNCHANGED today

\* pd.DataFrame(st.session_state.dreams): a frame of its own holding the
\* values of the dicts, one row per dict.
DataFrame(data) == [i \in 1..Len(data) |-> data[i]]

\* df['date'] = pd.to_datetime(df['date']): the frame with its date column
\* parsed.
ToDatetime(df) == [i \in 1..Len(df) |-> [df[i] EXCEPT !.date = ParseDate(@)]]

\* df['weekday'] = df['date'].dt.day_name(): the frame with one more column.
AssignWeekday(df) ==
    [i \in 1..Len(df) |->
        [k \in (DOMAIN df[i]) \cup {"weekday"} |->
            IF k = "weekday" THEN Weekday(df[i].date) ELSE df[i][k]]]

\* The "Analytics" page.
Analytics ==
    /\ op' = "Analytics"
    /\ arg' = <<>>
    /\ IF Len(dreams) = 0
       THEN ret' = [kind |-> "warning",
                    message |-> "No dreams recorded yet. Add some dreams to see analytics!"]
       ELSE LET df == DataFrame(dreams)
            IN  ret' = [kind |-> "metrics",
                        df |-> ToDatetime(df),
                        total_dreams |-> Len(df),
                        avg_sentiment |-> Ratio(SumOver(Column(df, "polarity"), 1), Len(df)),
                        lucid_pct |-> Ratio(LucidSum(df) * 100, Len(df)),
                        avg_sleep |-> Ratio(SumOver(Column(df, "sleep_quality"), 1), Len(df)),
                        all_themes |-> Flatten(Column(df, "themes"))]
    /\ UNCHANGED <<dreams, today>>

\* The "Predictions" page.
Predictions ==
    /\ op' = "Predictions"
    /\ arg' = <<>>
    /\ IF Len(dreams) < MIN_DREAMS_FOR_PREDICTION
       THEN ret' = [kind |-> "warning",
                    message |-> "Need at least 3 dreams for predictions!"]
       ELSE LET df == DataFrame(dreams)
            IN  ret' = [kind |-> "prediction",
                        df |-> AssignWeekday(ToDatetime(df)),
                        prediction |-> predict_next_dream(df),
                        weekday_sentiment |-> WeekdaySentiment(df),
                        recommendation |-> Recommendation(df)]
    /\ UNCHANGED <<dreams, today>>


\* C1: every record in the store passed validation: its text has a trimmed
\* length between 10 and 5000 and matches no unsafe pattern, its sleep_quality
\* is an integer from 1 to 10, and its date is neither in the future nor more
\* than 3650 days in the past.
C1_StoredRecordsValid ==
    \A i \in 1..Len(dreams) :
        /\ StripLen(dreams[i].text) >= MIN_DREAM_LENGTH
        /\ Len(dreams[i].text) <= MAX_DREAM_LENGTH
        /\ ~Harmful(dreams[i].text)
        /\ dreams[i].sleep_quality \in MIN_SLEEP_QUALITY..MAX_SLEEP_QUALITY
        /\ ParseDate(dreams[i].date) <= today
        /\ today - ParseDate(dreams[i].date) <= MAX_DATE_PAST_DAYS

\* The signals ErrorHandler.handle_analysis_error documents as the fallback.
FallbackSignals ==
    [polarity |-> 0, subjectivity |-> 5, emotion |-> neutral, themes |-> <<>>]

\* C2: when the sentiment provider raises during "Analyze & Save Dream" on
\* input the validators accept, the failure is caught, the fallback signals
\* are applied and a record is still appended to the store.
C2_AnalysisFailureAbsorbed ==
    ( /\ op = "Analyze & Save Dream"
      /\ arg.blob.raised
      /\ validate_dream_text(arg.dream_text)[1]
      /\ validate_sleep_quality(PyInt(arg.sleep_quality))[1]
      /\ validate_date(PyDate(arg.dream_date), today, today)[1] )
    => /\ ret.kind = "success"
       /\ Len(dreams) >= 1
       /\ LET last == dreams[Len(dreams)]
          IN  /\ last.text = arg.dream_text
              /\ last.polarity = FallbackSignals.polarity
              /\ last.subjectivity = FallbackSignals.subjectivity
              /\ last.emotion = FallbackSignals.emotion
              /\ last.themes = FallbackSignals.themes

\* The labels get_dominant_emotion can give, and the themes extract_themes can.
EmotionLabels ==
    {emotion_keywords[i].name : i \in 1..Len(emotion_keywords)} \cup {neutral}

ThemeNames == {theme_keywords[i].name : i \in 1..Len(theme_keywords)}

\* C8 as stated: with fewer than 3 records a prediction request gives the
\* explicit "need more data" result; with 3 or more a prediction naming an
\* emotion and a theme is returned.
C8_AsStated ==
    /\ Len(dreams) < MIN_DREAMS_FOR_PREDICTION
         => predict_next_dream(dreams) = NeedMoreDreams
    /\ op = "Predictions" =>
         IF Len(dreams) < MIN_DREAMS_FOR_PREDICTION
         THEN ret = [kind |-> "warning",
                     message |-> "Need at least 3 dreams for predictions!"]
         ELSE /\ ret.kind = "prediction"
              /\ \E e \in EmotionLabels, t \in ThemeNames :
                    ret.prediction = LikelyEmotion \o e \o LikelyTheme \o t

\* C8, amended: with 3 or more records the prediction names an emotion and
\* either a theme or, when none of the last five records has a theme, the
\* placeholder "unknown".
C8_Prediction ==
    /\ Len(dreams) < MIN_DREAMS_FOR_PREDICTION
         => predict_next_dream(dreams) = NeedMoreDreams
    /\ op = "Predictions" =>
         IF Len(dreams) < MIN_DREAMS_FOR_PREDICTION
         THEN ret = [kind |-> "warning",
                     message |-> "Need at least 3 dreams for predictions!"]
         ELSE /\ ret.kind = "prediction"
              /\ \E e \in EmotionLabels, t \in ThemeNames \cup {unknown} :
                    /\ ret.prediction = LikelyEmotion \o e \o LikelyTheme \o t
                    /\ t = unknown <=>
                         \A i \in 1..Len(dreams) :
                            i > Len(dreams) - PREDICTION_WINDOW
                               => Len(dreams[i].themes) = 0

\* A store of three records, one of them with themes, got a prediction that
\* names a theme.
C8_Witness ==
    /\ op = "Predictions"
    /\ Len(dreams) = MIN_DREAMS_FOR_PREDICTION
    /\ \E i \in 1..Len(dreams) : Len(dreams[i].themes) = 0
    /\ \E e \in EmotionLabels, t \in ThemeNames :
          ret.prediction = LikelyEmotion \o e \o LikelyTheme \o t

(***************************************************************************)
(* utils.py: calculate_dream_statistics                                    *)
(***************************************************************************)

\* The empty dict {}.
EmptyDict == [k \in {} |-> {}]

\* 'column' in df.columns
HasColumn(df, column) == \E i \in 1..Len(df) : column \in DOMAIN df[i]

\* min() and max() of a list of integers.
MinOf(f) == CHOOSE v \in {f[i] : i \in DOMAIN f} : \A i \in DOMAIN f : v <= f[i]

\* min() and max() of the 'YYYY-MM-DD' strings of a column: zero-padded, they
\* order as the dates they name do.
EarliestDate(dates) ==
    CHOOSE d \in {dates[i] : i \in DOMAIN dates} :
        \A i \in DOMAIN dates : ParseDate(d) <= ParseDate(dates[i])

LatestDate(dates) ==
    CHOOSE d \in {dates[i] : i \in DOMAIN dates} :
        \A i \in DOMAIN dates : ParseDate(dates[i]) <= ParseDate(d)

\* Series.std(): the sample standard deviation, NaN for one value; kept as
\* the variance it is the square root of, (n * sum(x^2) - sum(x)^2) / (n * (n - 1)).
StdOf(f) ==
    LET n == Len(f)
        squares == [i \in 1..n |-> f[i] * f[i]]
    IN  IF n < 2 THEN "NaN"
        ELSE [sqrt_of |-> Ratio((n * SumOver(squares, 1))
                                   - (SumOver(f, 1) * SumOver(f, 1)),
                                n * (n - 1))]

calculate_dream_statistics(dreams_data) ==
    IF Len(dreams_data) = 0
    THEN EmptyDict
    ELSE LET df == dreams_data
             n == Len(df)
         IN  [total_dreams |-> n,
              date_range |->
                 [earliest |-> IF HasColumn(df, "date")
                               THEN EarliestDate(Column(df, "date")) ELSE "None",
                  latest |-> IF HasColumn(df, "date")
                             THEN LatestDate(Column(df, "date")) ELSE "None"],
              sentiment_stats |->
                 [mean_polarity |-> IF HasColumn(df, "polarity")
                                    THEN Ratio(SumOver(Column(df, "polarity"), 1), n)
                                    ELSE 0,
                  std_polarity |-> IF HasColumn(df, "polarity")
                                   THEN StdOf(Column(df, "polarity")) ELSE 0,
                  positive_dreams |-> IF HasColumn(df, "polarity")
                                      THEN Cardinality({i \in 1..n : df[i].polarity > 1})
                                      ELSE 0,
                  negative_dreams |-> IF HasColumn(df, "polarity")
                                      THEN Cardinality({i \in 1..n : df[i].polarity < 0 - 1})
                                      ELSE 0],
              sleep_quality_stats |->
                 [mean_quality |-> IF HasColumn(df, "sleep_quality")
                                   THEN Ratio(SumOver(Column(df, "sleep_quality"), 1), n)
                                   ELSE 0,
                  best_night |-> IF HasColumn(df, "sleep_quality")
                                 THEN MaxOf(Column(df, "sleep_quality")) ELSE 0,
                  worst_night |-> IF HasColumn(df, "sleep_quality")
                                  THEN MinOf(Column(df, "sleep_quality")) ELSE 0],
              lucid_dream_stats |->
                 [total_lucid |-> IF HasColumn(df, "lucid") THEN LucidSum(df) ELSE 0,
                  lucid_percentage |-> IF HasColumn(df, "lucid")
                                       THEN Ratio(LucidSum(df) * 100, n) ELSE 0]]

(***************************************************************************)
(* The aggregators on their own: a list of records is drawn at the start,  *)
(* each record one "Analyze & Save Dream" builds, and each step applies    *)
(* one aggregator to the list.                                             *)
(***************************************************************************)

\* The longest list of records.
MaxRecords == 6

SampleDay == Ymd2Ord(2025, 1, 15)

\* Three records: joy with the themes flying and water, lucid; fear with the
\* theme chase; neutral with no theme.
SampleRecords ==
    { dream_entry(<<"H","a","p","p","y"," ","f","l","y","i","n","g"," ","o","v","e","r"," ","t","h","e"," ","o","c","e","a","n">>,
                  SampleDay, TRUE, 9, [polarity |-> 8, subjectivity |-> 5]),
      dream_entry(<<"s","c","a","r","e","d",","," ","I"," ","h","a","d"," ","t","o"," ","e","s","c","a","p","e">>,
                  SampleDay - 1, FALSE, 4, [polarity |-> 0 - 7, subjectivity |-> 5]),
      dream_entry(<<"h","i">>,
                  SampleDay - 2, FALSE, 7, [polarity |-> 0, subjectivity |-> 0]) }

RecordLists == UNION { [1..n -> SampleRecords] : n \in 0..MaxRecords }

InitAggregator ==
    /\ dreams = <<>>
    /\ today = SampleDay
    /\ op = "input"
    /\ arg \in RecordLists
    /\ ret = <<>>

PredictNextDream ==
    /\ op = "input"
    /\ op' = "predict_next_dream"
    /\ ret' = predict_next_dream(arg)
    /\ UNCHANGED <<dreams, today, arg>>

CalculateDreamStatistics ==
    /\ op = "input"
    /\ op' = "calculate_dream_statistics"
    /\ ret' = calculate_dream_statistics(arg)
    /\ UNCHANGED <<dreams, today, arg>>

NextAggregator ==
    \/ PredictNextDream
    \/ CalculateDreamStatistics

SpecAggregator == InitAggregator /\ [][NextAggregator]_vars

\* C4: calculate_dream_statistics on an empty list returns a result whose
\* lucid_percentage is 0.
C4_EmptyStoreLucidPercentage ==
    (op = "calculate_dream_statistics" /\ Len(arg) = 0)
    => /\ "lucid_dream_stats" \in DOMAIN ret
       /\ "lucid_percentage" \in DOMAIN ret.lucid_dream_stats
       /\ ret.lucid_dream_stats.lucid_percentage = 0

\* How often x occurs in a list, and where it occurs first.
Occurrences(x, list) == Cardinality({i \in 1..Len(list) : list[i] = x})

FirstOccurrence(x, list) ==
    CHOOSE i \in 1..Len(list) : list[i] = x /\ \A j \in 1..(i - 1) : list[j] # x

\* x is the most frequent element of the list, and among the most frequent
\* ones the one met first scanning the list from its start.
MostFrequentFirstMet(x, list) ==
    /\ \E i \in 1..Len(list) : list[i] = x
    /\ \A i \in 1..Len(list) :
          \/ Occurrences(list[i], list) < Occurrences(x, list)
          \/ /\ Occurrences(list[i], list) = Occurrences(x, list)
             /\ FirstOccurrence(x, list) <= FirstOccurrence(list[i], list)

\* The emotions, and the themes, of the last min(5, n) records, oldest first.
WindowEmotions(records) ==
    LET from == IF Len(records) > 5 THEN Len(records) - 4 ELSE 1
    IN  [i \in 1..(Len(records) - from + 1) |-> records[from + i - 1].emotion]

RECURSIVE ThemesFrom(_, _)
ThemesFrom(records, i) ==
    IF i > Len(records) THEN <<>>
    ELSE records[i].themes \o ThemesFrom(records, i + 1)

WindowThemes(records) ==
    ThemesFrom(records, IF Len(records) > 5 THEN Len(records) - 4 ELSE 1)

Spaces(n) == Rep(" ", n)

\* sep.join(parts)
RECURSIVE JoinWith(_, _)
JoinWith(sep, parts) ==
    IF Len(parts) = 0 THEN <<>>
    ELSE IF Len(parts) = 1 THEN parts[1]
    ELSE parts[1] \o sep \o JoinWith(sep, Tail(parts))

\* repr() of a float with one decimal, given in tenths: -7 is -0.7.
FloatStr(tenths) ==
    (IF tenths < 0 THEN <<"-">> ELSE <<>>)
      \o Pad(Abs(tenths) \div 10, 1) \o <<".">> \o Pad(Abs(tenths) % 10, 1)

\* The characters of a key of dream_entry.
KeyStr(key) ==
    CASE key = "date" -> <<"d","a","t","e">>
      [] key = "text" -> <<"t","e","x","t">>
      [] key = "polarity" -> <<"p","o","l","a","r","i","t","y">>
      [] key = "subjectivity" -> <<"s","u","b","j","e","c","t","i","v","i","t","y">>
      [] key = "emotion" -> <<"e","m","o","t","i","o","n">>
      [] key = "themes" -> <<"t","h","e","m","e","s">>
      [] key = "lucid" -> <<"l","u","c","i","d">>
      [] key = "sleep_quality" -> <<"s","l","e","e","p","_","q","u","a","l","i","t","y">>
      [] key = "word_count" -> <<"w","o","r","d","_","c","o","u","n","t">>

\* The keys of a record, in the dict's order.
KeysOf(dream) ==
    LET has == [i \in 1..Len(entry_keys) |-> entry_keys[i] \in DOMAIN dream]
    IN  Filter(entry_keys, has, 1)

\* The escapes of a JSON string with the backslash itself left as it is.
JsonEscapeChar_backslash_raw(c, escape_slash) ==
    CASE c = "\"" -> <<"\\", "\"">>
      [] c = "\n" -> <<"\\", "n">>
      [] c = "\r" -> <<"\\", "r">>
      [] c = "\t" -> <<"\\", "t">>
      [] c = "/" /\ escape_slash -> <<"\\", "/">>
      [] OTHER -> <<c>>

\* A string as JSON: quoted, with ", \ and the control characters escaped
\* (and / too where pandas writes it).
JsonEscapeChar(c, escape_slash) ==
    CASE c = "\"" -> <<"\\", "\"">>
      [] c = "\\" -> <<"\\", "\\">>
      [] c = "\n" -> <<"\\", "n">>
      [] c = "\r" -> <<"\\", "r">>
      [] c = "\t" -> <<"\\", "t">>
      [] c = "/" /\ escape_slash -> <<"\\", "/">>
      [] OTHER -> <<c>>

JsonString(s, escape_slash) ==
    <<"\"">> \o Flatten([i \in 1..Len(s) |-> JsonEscapeChar(s[i], escape_slash)])
             \o <<"\"">>

\* A list of strings as JSON, its opening bracket at `indent` spaces.
JsonStringList(list, indent, escape_slash) ==
    IF Len(list) = 0 THEN <<"[", "]">>
    ELSE <<"[", "\n">>
           \o JoinWith(<<",", "\n">>,
                       [i \in 1..Len(list) |->
                          Spaces(indent + 2) \o JsonString(list[i], escape_slash)])
           \o <<"\n">> \o Spaces(indent) \o <<"]">>

\* The value of a key of dream_entry as JSON.
JsonValue(dream, key, indent, escape_slash) ==
    CASE key \in {"date", "text", "emotion"} -> JsonString(dream[key], escape_slash)
      [] key \in {"polarity", "subjectivity"} -> FloatStr(dream[key])
      [] key = "themes" -> JsonStringList(dream[key], indent, escape_slash)
      [] key = "lucid" -> (IF dream[key] THEN <<"t","r","u","e">>
                           ELSE <<"f","a","l","s","e">>)
      [] key \in {"sleep_quality", "word_count"} -> IntStr(dream[key])

\* A dict as JSON, its opening brace at `indent` spaces, `colon` between a
\* key and its value.
JsonDict(dream, indent, colon, escape_slash) ==
    LET keys == KeysOf(dream)
    IN  IF Len(keys) = 0 THEN <<"{", "}">>
        ELSE <<"{", "\n">>
               \o JoinWith(<<",", "\n">>,
                           [i \in 1..Len(keys) |->
                              Spaces(indent + 2)
                                \o JsonString(KeyStr(keys[i]), escape_slash) \o colon
                                \o JsonValue(dream, keys[i], indent + 2, escape_slash)])
               \o <<"\n">> \o Spaces(indent) \o <<"}">>

\* A list of dicts as JSON with an indent of 2.
JsonRecords(dreams_data, colon, escape_slash) ==
    IF Len(dreams_data) = 0 THEN <<"[", "]">>
    ELSE <<"[", "\n">>
           \o JoinWith(<<",", "\n">>,
                       [i \in 1..Len(dreams_data) |->
                          Spaces(2) \o JsonDict(dreams_data[i], 2, colon, escape_slash)])
           \o <<"\n", "]">>

\* json.dumps(dreams_data, indent=2, default=str)
JsonDumps(dreams_data) == JsonRecords(dreams_data, <<":", " ">>, FALSE)

\* df.to_json(orient='records', indent=2): no space after the colon, and /
\* escaped.
ToJson(df) == JsonRecords(df, <<":">>, TRUE)

\* A field of a csv row: quoted, with the quotes doubled, when it holds the
\* delimiter, the quote or a line end.
CsvField(s) ==
    IF \E i \in 1..Len(s) : s[i] \in {",", "\"", "\n", "\r"}
    THEN <<"\"">>
           \o Flatten([i \in 1..Len(s) |-> IF s[i] = "\"" THEN <<"\"", "\"">> ELSE <<s[i]>>])
           \o <<"\"">>
    ELSE s

\* str() of a list of strings: ['flying', 'water'].
ListRepr(list) ==
    <<"[">>
      \o JoinWith(<<",", " ">>, [i \in 1..Len(list) |-> <<"'">> \o list[i] \o <<"'">>])
      \o <<"]">>

\* str() of the value of a key of dream_entry.
StrValue(dream, key) ==
    CASE key \in {"date", "text", "emotion"} -> dream[key]
      [] key \in {"polarity", "subjectivity"} -> FloatStr(dream[key])
      [] key = "themes" -> ListRepr(dream[key])
      [] key = "lucid" -> (IF dream[key] THEN <<"T","r","u","e">>
                           ELSE <<"F","a","l","s","e">>)
      [] key \in {"sleep_quality", "word_count"} -> IntStr(dream[key])

\* pd.DataFrame(dreams_data).to_csv(index=False): the header, then one line
\* per record; an empty frame gives an empty line.
ToCsv(dreams_data) ==
    IF Len(dreams_data) = 0 THEN <<"\n">>
    ELSE LET keys == KeysOf(dreams_data[1])
             row(dream) == JoinWith(<<",">>,
                             [k \in 1..Len(keys) |-> CsvField(StrValue(dream, keys[k]))])
         IN  JoinWith(<<",">>, [k \in 1..Len(keys) |-> CsvField(KeyStr(keys[k]))])
               \o <<"\n">>
               \o Flatten([i \in 1..Len(dreams_data) |-> row(dreams_data[i]) \o <<"\n">>])

MdTitle == <<"#"," ","D","r","e","a","m"," ","J","o","u","r","n","a","l"," ","E","x","p","o","r","t","\n","\n">>
MdDream == <<"#","#"," ","D","r","e","a","m"," ">>
MdDash == <<" ","-"," ">>
MdText == <<"*","*","T","e","x","t",":","*","*"," ">>
MdEmotion == <<"*","*","E","m","o","t","i","o","n",":","*","*"," ">>
MdThemes == <<"*","*","T","h","e","m","e","s",":","*","*"," ">>
MdSleepQuality == <<"*","*","S","l","e","e","p"," ","Q","u","a","l","i","t","y",":","*","*"," ">>
MdOutOfTen == <<"/","1","0","\n","\n">>
MdRule == <<"-","-","-","\n","\n">>
MdBreak == <<"\n", "\n">>

\* dream.get(key, default), rendered by the f-string.
GetStr(dream, key, default) ==
    IF key \in DOMAIN dream THEN StrValue(dream, key) ELSE default

\* The six lines the markdown loop adds for the i-th record.
MarkdownSection(dream, i) ==
    MdDream \o IntStr(i) \o MdDash
      \o GetStr(dream, "date", <<"U","n","k","n","o","w","n"," ","D","a","t","e">>) \o MdBreak
      \o MdText \o GetStr(dream, "text", <<"N","o"," ","d","e","s","c","r","i","p","t","i","o","n">>) \o MdBreak
      \o MdEmotion \o GetStr(dream, "emotion", <<"U","n","k","n","o","w","n">>) \o MdBreak
      \o MdThemes
      \o JoinWith(<<",", " ">>, IF "themes" \in DOMAIN dream THEN dream.themes ELSE <<>>)
      \o MdBreak
      \o MdSleepQuality \o GetStr(dream, "sleep_quality", <<"N","/","A">>) \o MdOutOfTen
      \o MdRule

Markdown(dreams_data) ==
    MdTitle \o Flatten([i \in 1..Len(dreams_data) |-> MarkdownSection(dreams_data[i], i)])

FormatJson == <<"j","s","o","n">>
FormatCsv == <<"c","s","v">>
FormatMarkdown == <<"m","a","r","k","d","o","w","n">>

ExportFailed == <<"E","x","p","o","r","t"," ","f","a","i","l","e","d",":"," ">>
UnsupportedFormat == <<"U","n","s","u","p","p","o","r","t","e","d"," ","f","o","r","m","a","t",":"," ">>

\* export_dreams_advanced falling back to JSON for a format it does not know.
export_dreams_advanced_json_fallback(dreams_data, format_type) ==
    IF Lower(format_type) = FormatCsv THEN ToCsv(dreams_data)
    ELSE IF Lower(format_type) = FormatMarkdown THEN Markdown(dreams_data)
    ELSE JsonDumps(dreams_data)

\* The ValueError of the last branch is caught by the function's own except,
\* which returns the message.
export_dreams_advanced(dreams_data, format_type) ==
    IF Lower(format_type) = FormatJson THEN JsonDumps(dreams_data)
    ELSE IF Lower(format_type) = FormatCsv THEN ToCsv(dreams_data)
    ELSE IF Lower(format_type) = FormatMarkdown THEN Markdown(dreams_data)
    ELSE ExportFailed \o UnsupportedFormat \o format_type

(***************************************************************************)
(* app.py: the "Export Data" page, and the session as a whole              *)
(***************************************************************************)

\* The "Export Data" page as an export-then-discard: the store is cleared
\* once the downloads are built.
ExportData_then_discard ==
    /\ op' = "Export Data"
    /\ arg' = <<>>
    /\ IF Len(dreams) = 0
       THEN /\ ret' = [kind |-> "warning", message |-> "No dreams to export!"]
            /\ UNCHANGED dreams
       ELSE /\ ret' = [kind |-> "downloads",
                       csv |-> ToCsv(dreams),
                       json_data |-> ToJson(dreams)]
            /\ dreams' = <<>>
    /\ UNCHANGED today

\* The "Export Data" page: the two download buttons' data.
ExportData ==
    /\ op' = "Export Data"
    /\ arg' = <<>>
    /\ IF Len(dreams) = 0
       THEN ret' = [kind |-> "warning", message |-> "No dreams to export!"]
       ELSE LET df == DataFrame(dreams)
            IN  ret' = [kind |-> "downloads",
                        csv |-> ToCsv(df),
                        json_data |-> ToJson(df)]
    /\ UNCHANGED <<dreams, today>>

Next ==
    \/ AnalyzeAndSave
    \/ Analytics
    \/ Predictions
    \/ ExportData

Spec == Init /\ [][Next]_vars

(***************************************************************************)
(* The exporter on its own: a list of records is drawn at the start, and   *)
(* the one step exports it in a format.                                    *)
(***************************************************************************)

\* The longest list of records exported.
MaxExport == 2

\* A record whose text holds quotes, a backslash, a tab and line breaks, and
\* among its lines one that reads as a section heading and one as a rule.
MultilineRecord ==
    dream_entry(<<"\"","f","l","y","\"","\\","n","o","w","\n","#","#"," ","D","r","e","a","m"," ","7"," ","-"," ","2","0","2","5","\n","\n","-","-","-","\n","\t","z">>,
                SampleDay, TRUE, 6, [polarity |-> 3, subjectivity |-> 10])

ExportRecords == SampleRecords \cup {MultilineRecord}

ExportLists == UNION { [1..n -> ExportRecords] : n \in 0..MaxExport }

ExportFormats ==
    { FormatJson, FormatCsv, FormatMarkdown,
      <<"J","S","O","N">>, <<"M","a","r","k","d","o","w","n">>,
      <<"x","m","l">>, <<"y","a","m","l">>, <<"j","s","o","n","l">>, <<>> }

InitExport ==
    /\ dreams = <<>>
    /\ today = SampleDay
    /\ op = "input"
    /\ arg \in [dreams_data : ExportLists, format_type : ExportFormats]
    /\ ret = <<>>

ExportDreamsAdvanced ==
    /\ op = "input"
    /\ op' = "export_dreams_advanced"
    /\ ret' = export_dreams_advanced(arg.dreams_data, arg.format_type)
    /\ UNCHANGED <<dreams, today, arg>>

NextExport == ExportDreamsAdvanced

SpecExport == InitExport /\ [][NextExport]_vars

\* s[:len(prefix)] == prefix
StartsWith(s, prefix) == Len(prefix) <= Len(s) /\ SubSeq(s, 1, Len(prefix)) = prefix

\* C3: for a format other than json, csv or markdown (the format's case
\* aside) export_dreams_advanced returns the error "Export failed: Unsupported
\* format: <format>" and nothing of the records, and no successful export
\* starts as the error does.
C3_UnsupportedFormat ==
    op = "export_dreams_advanced" =>
        IF Lower(arg.format_type) \in {FormatJson, FormatCsv, FormatMarkdown}
        THEN ~StartsWith(ret, ExportFailed)
        ELSE ret = ExportFailed \o UnsupportedFormat \o arg.format_type

\* Two records were exported as "xml" and the error came back.
C3_Witness ==
    /\ op = "export_dreams_advanced"
    /\ arg.format_type = <<"x","m","l">>
    /\ Len(arg.dreams_data) = 2
    /\ ret = ExportFailed \o UnsupportedFormat \o arg.format_type

(***************************************************************************)
(* utils.py: AdvancedAnalyzer.analyze_dream_complexity                     *)
(***************************************************************************)

\* The symbols of self.dream_symbols, category after category.
dream_symbols ==
    <<
       \* water
       <<"o","c","e","a","n">>,
       <<"r","i","v","e","r">>,
       <<"l","a","k","e">>,
       <<"r","a","i","n">>,
       <<"f","l","o","o","d">>,
       <<"s","w","i","m","m","i","n","g">>,
       \* flying
       <<"f","l","y">>,
       <<"s","o","a","r">>,
       <<"w","i","n","g","s">>,
       <<"f","l","o","a","t","i","n","g">>,
       <<"l","e","v","i","t","a","t","e">>,
       \* animals
       <<"d","o","g">>,
       <<"c","a","t">>,
       <<"b","i","r","d">>,
       <<"s","n","a","k","e">>,
       <<"l","i","o","n">>,
       <<"b","e","a","r">>,
       <<"w","o","l","f">>,
       \* people
       <<"f","r","i","e","n","d">>,
       <<"f","a","m","i","l","y">>,
       <<"s","t","r","a","n","g","e","r">>,
       <<"c","r","o","w","d">>,
       <<"p","e","r","s","o","n">>,
       \* places
       <<"h","o","u","s","e">>,
       <<"s","c","h","o","o","l">>,
       <<"w","o","r","k">>,
       <<"c","i","t","y">>,
       <<"f","o","r","e","s","t">>,
       <<"m","o","u","n","t","a","i","n">>,
       \* emotions
       <<"h","a","p","p","y">>,
       <<"s","a","d">>,
       <<"a","n","g","r","y">>,
       <<"s","c","a","r","e","d">>,
       <<"e","x","c","i","t","e","d">>,
       <<"w","o","r","r","i","e","d">>
    >>

\* The indexes where a word of text.split() starts.
WordStarts(text) ==
    {i \in 1..Len(text) :
        /\ text[i] \notin WhiteSpace
        /\ (i = 1 \/ text[i - 1] \in WhiteSpace)}

\* The word of text.split() that starts at index i.
WordAt(text, i) ==
    LET last == CHOOSE j \in i..Len(text) :
                    /\ \A k \in i..j : text[k] \notin WhiteSpace
                    /\ (j = Len(text) \/ text[j + 1] \in WhiteSpace)
    IN  SubSeq(text, i, last)

\* len([s for s in text.split('.') if s.strip()]): the pieces between periods
\* that hold a character other than white space, each counted at its first
\* such character.
SentenceCount(text) ==
    LET solid(i) == text[i] \notin (WhiteSpace \cup {"."})
    IN  Cardinality({i \in 1..Len(text) :
                        /\ solid(i)
                        /\ \A j \in 1..(i - 1) :
                              solid(j) => \E k \in (j + 1)..(i - 1) : text[k] = "."})

Max2(a, b) == IF a > b THEN a ELSE b

\* Exact arithmetic on the quotients Ratio builds.
RatAdd(a, b) == Ratio((a.num * b.den) + (b.num * a.den), a.den * b.den)

RatMul(a, b) == Ratio(a.num * b.num, a.den * b.den)

RatLeq(a, b) == a.num * b.den <= b.num * a.den

RatMin(a, b) == IF RatLeq(a, b) THEN a ELSE b

RECURSIVE Pow10(_)
Pow10(places) == IF places = 0 THEN 1 ELSE 10 * Pow10(places - 1)

\* round(x, places), in units of 10^-places; a tie goes to the even neighbour.
Round(x, places) ==
    LET n == x.num * Pow10(places)
        q == n \div x.den
        r == n % x.den
    IN  IF 2 * r > x.den THEN q + 1
        ELSE IF 2 * r < x.den THEN q
        ELSE IF q % 2 = 0 THEN q ELSE q + 1

ZeroDivisionError == [raised |-> "ZeroDivisionError"]

\* The dict analyze_dream_complexity returns once its divisors are known;
\* the rounded values are in units of their last decimal.
complexity_metrics(text, word_count, sentence_count, sentence_divisor, word_divisor, cap) ==
    IF sentence_divisor = 0 \/ word_divisor = 0 THEN ZeroDivisionError
    ELSE
    LET avg_sentence_length == Ratio(word_count, sentence_divisor)
        unique_words == Cardinality({Lower(WordAt(text, i)) : i \in WordStarts(text)})
        uniqueness_ratio == Ratio(unique_words, word_divisor)
        text_lower == Lower(text)
        symbol_count == Cardinality({k \in 1..Len(dream_symbols) :
                                        Contains(dream_symbols[k], text_lower)})
        symbol_density == RatMul(Ratio(symbol_count, word_divisor), Ratio(100, 1))
        weighted == RatAdd(RatAdd(RatMul(Ratio(word_count, 10), Ratio(3, 10)),
                                  RatMul(RatMul(uniqueness_ratio, Ratio(100, 1)),
                                         Ratio(3, 10))),
                           RatMul(symbol_density, Ratio(4, 10)))
        complexity_score == IF cap THEN RatMin(Ratio(100, 1), weighted) ELSE weighted
    IN  [word_count |-> word_count,
         sentence_count |-> sentence_count,
         avg_sentence_length |-> Round(avg_sentence_length, 1),
         uniqueness_ratio |-> Round(uniqueness_ratio, 2),
         symbol_density |-> Round(symbol_density, 1),
         complexity_score |-> Round(complexity_score, 1)]

\* analyze_dream_complexity without the min(100, ...) around the score.
analyze_dream_complexity_uncapped(text) ==
    LET word_count == Cardinality(WordStarts(text))
        sentence_count == SentenceCount(text)
    IN  complexity_metrics(text, word_count, sentence_count,
                           Max2(sentence_count, 1), Max2(word_count, 1), FALSE)

analyze_dream_complexity(text) ==
    LET word_count == Cardinality(WordStarts(text))
        sentence_count == SentenceCount(text)
    IN  complexity_metrics(text, word_count, sentence_count,
                           Max2(sentence_count, 1), Max2(word_count, 1), TRUE)

(***************************************************************************)
(* The complexity analysis on its own                                      *)
(***************************************************************************)

\* The most pieces a text of this specification is made of.
MaxPieces == 3

\* The pieces: plain words, a repeated word in another case, symbol words, a
\* word that holds six symbols, a period, and white space.
ComplexityPieces ==
    { <<"I">>,
      <<"s","a","w">>,
      <<"S","a","w",".">>,
      <<"o","c","e","a","n">>,
      <<"t","h","e"," ","d","o","g","."," ">>,
      <<"o","c","e","a","n","r","i","v","e","r","l","a","k","e","r","a","i","n","f","l","o","o","d","s","w","i","m","m","i","n","g">>,
      <<".">>,
      <<" ">>,
      <<" ","\t","\n">> }

ComplexityTexts ==
    UNION { {Flatten(w) : w \in [1..n -> ComplexityPieces]} : n \in 0..MaxPieces }

InitComplexity ==
    /\ dreams = <<>>
    /\ today = SampleDay
    /\ op = "input"
    /\ arg \in ComplexityTexts
    /\ ret = <<>>

AnalyzeDreamComplexity ==
    /\ op = "input"
    /\ op' = "analyze_dream_complexity"
    /\ ret' = analyze_dream_complexity(arg)
    /\ UNCHANGED <<dreams, today, arg>>

NextComplexity == AnalyzeDreamComplexity

SpecComplexity == InitComplexity /\ [][NextComplexity]_vars

\* The weighted sum of analyze_dream_complexity for a text, in hundredths of
\* the text's word divisor, from the counts alone:
\* 100 * W * ((wc / 10) * 0.3 + (uw / W) * 100 * 0.3 + (sc / W) * 100 * 0.4).
WeightedSum(text) ==
    LET wc == WordCount(text)
        uw == Cardinality({Lower(WordAt(text, i)) : i \in WordStarts(text)})
        sc == Cardinality({k \in 1..Len(dream_symbols) :
                              Contains(dream_symbols[k], Lower(text))})
    IN  (3 * wc * Max2(wc, 1)) + (3000 * uw) + (4000 * sc)

\* C11: for every text, the empty, the blank and the period-free ones
\* included, analyze_dream_complexity returns a complexity_score between 0
\* and 100 (0 and 1000 in tenths), and no division by zero happens.
C11_ComplexityBounded ==
    op = "analyze_dream_complexity" =>
        /\ ret # ZeroDivisionError
        /\ ret.complexity_score >= 0
        /\ ret.complexity_score <= 1000

\* C11 witness: a text whose weighted sum is above 100 has been scored 100.
C11_Witness ==
    /\ op = "analyze_dream_complexity"
    /\ WeightedSum(arg) > 100 * 100 * Max2(WordCount(arg), 1)
    /\ ret.complexity_score = 1000

(***************************************************************************)
(* The date validator on its own                                           *)
(***************************************************************************)

\* How far around the two limits the dates of this specification go.
DateSlack == 2

\* The days the validator runs on: the day after a leap day, a New Year's
\* Eve and a day in the middle of a month.
ClockDays ==
    { Ymd2Ord(2024, 3, 1), Ymd2Ord(2024, 12, 31), Ymd2Ord(2025, 1, 15) }

\* The dates given, as days after the day of the call: around the day itself
\* and around 3650 days before it.
DateDeltas ==
    ((0 - DateSlack)..DateSlack)
      \cup ((0 - MAX_DATE_PAST_DAYS - DateSlack)..(DateSlack - MAX_DATE_PAST_DAYS))

\* Midnight may pass between the two datetime.now() calls.
MidnightPasses == {0, 1}

NotDates == { [type |-> "NoneType"], [type |-> "str"], [type |-> "datetime"] }

InitDates ==
    /\ dreams = <<>>
    /\ today \in ClockDays
    /\ op = "input"
    /\ arg \in [date_obj : {PyDate(today + delta) : delta \in DateDeltas} \cup NotDates,
                midnight : MidnightPasses]
    /\ ret = <<>>

ValidateDate ==
    /\ op = "input"
    /\ op' = "validate_date"
    /\ ret' = validate_date(arg.date_obj, today, today + arg.midnight)
    /\ UNCHANGED <<dreams, today, arg>>

NextDates == ValidateDate

SpecDates == InitDates /\ [][NextDates]_vars

FUTURE == <<FALSE, "Dream date cannot be in the future">>
TOO_OLD == <<FALSE, "Dream date too far in the past">>

\* C12: for a date d, validate_date fails with FUTURE iff d is after the
\* current date, fails with TOO_OLD iff d is more than 3650 days before the
\* current date, and is VALID otherwise, the current date being the one
\* datetime.now() gives to the comparison concerned; d = today and d = today
\* minus 3650 days are valid, today plus 1 day and today minus 3651 days are
\* rejected.
C12_ValidateDate ==
    (op = "validate_date" /\ arg.date_obj.type = "date") =>
        LET d == arg.date_obj.value
            now_again == today + arg.midnight
        IN  /\ (ret = FUTURE) <=> (d > today)
            /\ (ret = TOO_OLD) <=> (d <= today /\ now_again - d > 3650)
            /\ (ret = VALID) <=> (d <= today /\ now_again - d <= 3650)
            /\ d = today => ret = VALID
            /\ d = now_again - 3650 => ret = VALID
            /\ d = today + 1 => ret = FUTURE
            /\ (d = today - 3651 \/ d = now_again - 3651) => ret = TOO_OLD

\* C12 witness: the date exactly 3650 days back has been accepted.
C12_Witness ==
    /\ op = "validate_date"
    /\ arg.date_obj.type = "date"
    /\ arg.midnight = 0
    /\ arg.date_obj.value = today - 3650
    /\ ret = VALID

(***************************************************************************)
(* The sleep quality validator on its own                                  *)
(***************************************************************************)

\* How far beyond the two limits the integers of this specification go.
QualitySlack == 20

\* The values given: integers around the range, the two booleans, floats
\* (their value in tenths), a string and None.
QualityValues ==
    {PyInt(n) : n \in (MIN_SLEEP_QUALITY - QualitySlack)..(MAX_SLEEP_QUALITY + QualitySlack)}
      \cup {PyBool(b) : b \in BOOLEAN}
      \cup {[type |-> "float", value |-> t] : t \in {5, 70, 75, 110}}
      \cup {[type |-> "str", value |-> <<"7">>], [type |-> "NoneType", value |-> <<>>]}

InitQuality ==
    /\ dreams = <<>>
    /\ today = SampleDay
    /\ op = "input"
    /\ arg \in QualityValues
    /\ ret = <<>>

ValidateSleepQuality ==
    /\ op = "input"
    /\ op' = "validate_sleep_quality"
    /\ ret' = validate_sleep_quality(arg)
    /\ UNCHANGED <<dreams, today, arg>>

NextQuality == ValidateSleepQuality

SpecQuality == InitQuality /\ [][NextQuality]_vars

TYPE == <<FALSE, "Sleep quality must be a number">>
RANGE == <<FALSE, "Sleep quality must be between 1 and 10">>

\* C13: validate_sleep_quality(n) returns VALID iff n is an integer with
\* 1 <= n <= 10; it fails with the TYPE reason for every value that is not an
\* integer (a boolean, a float, a string, None) and with the RANGE reason for
\* every integer outside 1..10.
C13_ValidateSleepQuality ==
    op = "validate_sleep_quality" =>
        LET integer == arg.type = "int"
        IN  /\ (ret = VALID) <=> (integer /\ arg.value \in 1..10)
            /\ ~integer => ret = TYPE
            /\ (integer /\ arg.value \notin 1..10) => ret = RANGE

(***************************************************************************)
(* Claims on the session, continued                                        *)
(***************************************************************************)

ReadingPages == {"Analytics", "Predictions", "Export Data"}

\* C14: the store is append-only and its records are immutable: in every step
\* of a session each stored record stays at its index with every field
\* unchanged, none is removed or reordered, and the Analytics, Predictions and
\* Export Data pages leave the store exactly as it was.
C14_AppendOnly ==
    [][ /\ Len(dreams') >= Len(dreams)
        /\ \A i \in 1..Len(dreams) : dreams'[i] = dreams[i]
        /\ op' \in ReadingPages => dreams' = dreams ]_vars

\* C14 witness: the Predictions page has converted the dates of its frame and
\* added the weekday column, and the store still holds the date strings and
\* no weekday.
C14_Witness ==
    /\ op = "Predictions"
    /\ ret.kind = "prediction"
    /\ Len(dreams) >= MIN_DREAMS_FOR_PREDICTION
    /\ \A i \in 1..Len(dreams) :
          /\ ret.df[i].date = ParseDate(dreams[i].date)
          /\ "weekday" \in DOMAIN ret.df[i]
          /\ "weekday" \notin DOMAIN dreams[i]
          /\ dreams[i].date = strftime(ParseDate(dreams[i].date))

\* The emotion labels a record may carry: self.emotions and the default.
RecordEmotionLabels == {joy, fear, anger, sadness, anxiety, love, surprise, neutral}

\* C15: in every reachable store state each record has one emotion label out
\* of joy, fear, anger, sadness, anxiety, love, surprise and neutral, and a
\* themes list that holds only names of the theme vocabulary, none of them
\* twice.
C15_RecordVocabulary ==
    \A i \in 1..Len(dreams) :
        /\ dreams[i].emotion \in RecordEmotionLabels
        /\ \A k \in 1..Len(dreams[i].themes) : dreams[i].themes[k] \in ThemeNames
        /\ \A k, l \in 1..Len(dreams[i].themes) :
              dreams[i].themes[k] = dreams[i].themes[l] => k = l

\* C15 witness: a stored record whose text holds two keywords of the theme
\* flying lists that theme once, and carries the label of its one emotion
\* keyword.
C15_Witness ==
    \E i \in 1..Len(dreams) :
        /\ Score(theme_keywords[1].keywords, Lower(dreams[i].text)) >= 2
        /\ dreams[i].themes = <<flying>>
        /\ dreams[i].emotion = joy

(***************************************************************************)
(* Claims on the aggregators, continued                                    *)
(***************************************************************************)

\* C16: for every non-empty list of records calculate_dream_statistics
\* returns total_dreams equal to the number of records, total_lucid equal to
\* the number of records whose lucid flag is true, and lucid_percentage equal
\* to 100 * total_lucid / total_dreams, between 0 and 100; one lucid and one
\* non-lucid record give a total of 2 and a lucid_percentage of 50.
C16_Statistics ==
    (op = "calculate_dream_statistics" /\ Len(arg) > 0) =>
        LET lucid_rows == {i \in 1..Len(arg) : arg[i].lucid = TRUE}
            lucid_stats == ret.lucid_dream_stats
            pct == lucid_stats.lucid_percentage
        IN  /\ ret.total_dreams = Len(arg)
            /\ lucid_stats.total_lucid = Cardinality(lucid_rows)
            /\ pct.num * Len(arg) = 100 * Cardinality(lucid_rows) * pct.den
            /\ pct.den > 0
            /\ 0 <= pct.num
            /\ pct.num <= 100 * pct.den
            /\ (Len(arg) = 2 /\ Cardinality(lucid_rows) = 1) =>
                  (ret.total_dreams = 2 /\ pct = [num |-> 50, den |-> 1])

\* C16 witness: the statistics of one lucid and one non-lucid record have
\* been computed.
C16_Witness ==
    /\ op = "calculate_dream_statistics"
    /\ Len(arg) = 2
    /\ arg[1].lucid
    /\ ~arg[2].lucid
    /\ ret.total_dreams = 2
    /\ ret.lucid_dream_stats.total_lucid = 1
    /\ ret.lucid_dream_stats.lucid_percentage = [num |-> 50, den |-> 1]

(***************************************************************************)
(* test_app.py: json.loads, the parser the export is read back with.       *)
(* A parse gives [value, next]: the value read and the index after it, or  *)
(* next = 0 where json.loads raises JSONDecodeError.  An object is a       *)
(* function from its keys (strings) to its values, an array a tuple, a     *)
(* number without fraction an integer, a number with one a quotient.       *)
(***************************************************************************)

JSONDecodeError == [value |-> "JSONDecodeError", next |-> 0]

\* The first index from i on that holds no white space.
SkipWhiteSpace(s, i) ==
    CHOOSE j \in i..(Len(s) + 1) :
        /\ \A k \in i..(j - 1) : s[k] \in WhiteSpace
        /\ (j = Len(s) + 1 \/ s[j] \notin WhiteSpace)

\* The character an escape stands for.
JsonUnescape(c) ==
    CASE c = "n" -> "\n"
      [] c = "t" -> "\t"
      [] c = "r" -> "\r"
      [] c \in {"\"", "\\", "/"} -> c
      [] OTHER -> "JSONDecodeError"

\* Whether the backslash at index k of s starts an escape: an even number
\* of backslashes lies between it and index `from`, left of it.
StartsEscape(s, from, k) ==
    /\ s[k] = "\\"
    /\ LET run_start == CHOOSE j \in from..k :
                            /\ \A m \in j..k : s[m] = "\\"
                            /\ (j = from \/ s[j - 1] # "\\")
       IN  (k - run_start) % 2 = 0

\* The characters of a string from index i (after its opening quote) on: up
\* to the first quote no escape covers, each escape read as its character.
ParseChars(s, i, acc) ==
    LET escaped(k) == k > i /\ StartsEscape(s, i, k - 1)
        closing(j) == s[j] = "\"" /\ ~escaped(j)
    IN  IF ~\E j \in i..Len(s) : closing(j) THEN JSONDecodeError
        ELSE LET close == CHOOSE j \in i..Len(s) :
                              closing(j) /\ \A m \in i..(j - 1) : ~closing(m)
                 kept == {k \in i..(close - 1) : ~StartsEscape(s, i, k)}
                 at(n) == CHOOSE k \in kept : Cardinality({m \in kept : m <= k}) = n
                 bad == \E k \in kept :
                           \/ s[k] \in {"\n", "\r", "\t"}
                           \/ escaped(k) /\ JsonUnescape(s[k]) = "JSONDecodeError"
             IN  IF bad \/ StartsEscape(s, i, close - 1) THEN JSONDecodeError
                 ELSE [value |-> acc \o [n \in 1..Cardinality(kept) |->
                                           IF escaped(at(n)) THEN JsonUnescape(s[at(n)])
                                           ELSE s[at(n)]],
                       next |-> close + 1]

\* The index after the digits that start at i.
DigitsEnd(s, i) ==
    CHOOSE j \in i..(Len(s) + 1) :
        /\ \A k \in i..(j - 1) : s[k] \in Digits
        /\ (j = Len(s) + 1 \/ s[j] \notin Digits)

\* A number: -?digits, then .digits for a float.
ParseNumber(s, i) ==
    LET negative == s[i] = "-"
        first == IF negative THEN i + 1 ELSE i
        int_end == DigitsEnd(s, first)
        has_fraction == int_end <= Len(s) /\ s[int_end] = "."
        frac_end == IF has_fraction THEN DigitsEnd(s, int_end + 1) ELSE int_end
        int_part == ParseInt(SubSeq(s, first, int_end - 1))
        frac_digits == frac_end - int_end - 1
        sign == IF negative THEN 0 - 1 ELSE 1
    IN  IF int_end = first \/ (has_fraction /\ frac_digits = 0) THEN JSONDecodeError
        ELSE IF has_fraction
        THEN [value |-> Ratio(sign * ((int_part * Pow10(frac_digits))
                                        + ParseInt(SubSeq(s, int_end + 1, frac_end - 1))),
                              Pow10(frac_digits)),
              next |-> frac_end]
        ELSE [value |-> sign * int_part, next |-> int_end]

JsonTrue == <<"t","r","u","e">>
JsonFalse == <<"f","a","l","s","e">>
JsonNull == <<"n","u","l","l">>

RECURSIVE ParseValue(_, _)
RECURSIVE ParseItems(_, _, _)
RECURSIVE ParseMembers(_, _, _)

\* After an item of an array: a comma and the next item, or the bracket.
AfterItem(s, item, acc) ==
    IF item.next = 0 THEN JSONDecodeError
    ELSE LET j == SkipWhiteSpace(s, item.next)
         IN  IF j > Len(s) THEN JSONDecodeError
             ELSE IF s[j] = "]"
             THEN [value |-> Append(acc, item.value), next |-> j + 1]
             ELSE IF s[j] = ","
             THEN ParseItems(s, SkipWhiteSpace(s, j + 1), Append(acc, item.value))
             ELSE JSONDecodeError

\* The items of an array from index i on, after those of acc.
ParseItems(s, i, acc) == AfterItem(s, ParseValue(s, i), acc)

\* After a member of an object: a comma and the next member, or the brace.
AfterMember(s, key, member, acc) ==
    IF member.next = 0 THEN JSONDecodeError
    ELSE LET j == SkipWhiteSpace(s, member.next)
             object == [k \in (DOMAIN acc) \cup {key} |->
                          IF k = key THEN member.value ELSE acc[k]]
         IN  IF j > Len(s) THEN JSONDecodeError
             ELSE IF s[j] = "}" THEN [value |-> object, next |-> j + 1]
             ELSE IF s[j] = "," THEN ParseMembers(s, SkipWhiteSpace(s, j + 1), object)
             ELSE JSONDecodeError

\* After the key of a member: the colon and the value.
AfterKey(s, key, acc) ==
    IF key.next = 0 THEN JSONDecodeError
    ELSE LET j == SkipWhiteSpace(s, key.next)
         IN  IF j > Len(s) \/ s[j] # ":" THEN JSONDecodeError
             ELSE AfterMember(s, key.value,
                              ParseValue(s, SkipWhiteSpace(s, j + 1)), acc)

\* The members of an object from index i on, after those of acc.
ParseMembers(s, i, acc) ==
    IF i > Len(s) \/ s[i] # "\"" THEN JSONDecodeError
    ELSE AfterKey(s, ParseChars(s, i + 1, <<>>), acc)

ParseValue(s, i) ==
    IF i > Len(s) THEN JSONDecodeError
    ELSE IF s[i] = "\"" THEN ParseChars(s, i + 1, <<>>)
    ELSE IF s[i] = "["
    THEN LET j == SkipWhiteSpace(s, i + 1)
         IN  IF j <= Len(s) /\ s[j] = "]" THEN [value |-> <<>>, next |-> j + 1]
             ELSE ParseItems(s, j, <<>>)
    ELSE IF s[i] = "{"
    THEN LET j == SkipWhiteSpace(s, i + 1)
         IN  IF j <= Len(s) /\ s[j] = "}" THEN [value |-> EmptyDict, next |-> j + 1]
             ELSE ParseMembers(s, j, EmptyDict)
    ELSE IF MatchAt(JsonTrue, s, i) THEN [value |-> TRUE, next |-> i + 4]
    ELSE IF MatchAt(JsonFalse, s, i) THEN [value |-> FALSE, next |-> i + 5]
    ELSE IF MatchAt(JsonNull, s, i) THEN [value |-> "None", next |-> i + 4]
    ELSE IF s[i] \in Digits \cup {"-"} THEN ParseNumber(s, i)
    ELSE JSONDecodeError

\* json.loads(s): the one value of the document, unless it raises.
JsonLoads(s) ==
    LET parsed == ParseValue(s, SkipWhiteSpace(s, 1))
    IN  IF parsed.next = 0 \/ SkipWhiteSpace(s, parsed.next) # Len(s) + 1
        THEN [raised |-> TRUE]
        ELSE [raised |-> FALSE, value |-> parsed.value]

(***************************************************************************)
(* Claims on the exporter, continued                                       *)
(***************************************************************************)

\* What json.loads gives for the value dream[key] of a record: the value
\* itself, a float (kept in tenths in a record) as the quotient it is.
LoadedValue(dream, key) ==
    IF key \in {"polarity", "subjectivity"} THEN Ratio(dream[key], 10) ELSE dream[key]

\* C17: the string export_dreams_advanced(records, 'json') returns parses to
\* a list of as many objects as there are records, in the records' order,
\* each with the keys of its record and the values of its record.
C17_JsonRoundTrip ==
    (op = "export_dreams_advanced" /\ Lower(arg.format_type) = FormatJson) =>
        \E loaded \in {JsonLoads(ret)} :
            /\ ~loaded.raised
            /\ Len(loaded.value) = Len(arg.dreams_data)
            /\ \A i \in 1..Len(arg.dreams_data) :
                  /\ DOMAIN loaded.value[i]
                       = {KeyStr(k) : k \in DOMAIN arg.dreams_data[i]}
                  /\ \A k \in DOMAIN arg.dreams_data[i] :
                        loaded.value[i][KeyStr(k)] = LoadedValue(arg.dreams_data[i], k)

\* C17 witness: two different records, the first with quotes, a backslash and
\* line breaks in its text, were exported as JSON and the text read back is
\* the text of the record.
C17_Witness ==
    /\ op = "export_dreams_advanced"
    /\ arg.format_type = FormatJson
    /\ Len(arg.dreams_data) = 2
    /\ arg.dreams_data[1] = MultilineRecord
    /\ arg.dreams_data[2] # MultilineRecord
    /\ \E loaded \in {JsonLoads(ret)} :
          /\ ~loaded.raised
          /\ Len(loaded.value) = 2
          /\ loaded.value[1][KeyStr("text")] = MultilineRecord.text

\* The indexes where a line of s starts.
LineStarts(s) == {i \in 1..Len(s) : i = 1 \/ s[i - 1] = "\n"}

\* The line of s that starts at index i, without its line break.
LineAt(s, i) ==
    LET end == CHOOSE j \in (i - 1)..Len(s) :
                   /\ \A k \in i..j : s[k] # "\n"
                   /\ (j = Len(s) \/ s[j + 1] = "\n")
    IN  SubSeq(s, i, end)

\* The starts of the lines that read as a section heading, '## Dream ...'.
HeadingStarts(s) == {i \in LineStarts(s) : MatchAt(MdDream, s, i)}

\* The starts of the lines that read as a separator, '---'.
RuleStarts(s) == {i \in LineStarts(s) : LineAt(s, i) = <<"-","-","-">>}

\* C18: a markdown export of N records holds exactly N section headings
\* '## Dream <n> - <date>', the n-th of them that of the n-th record with n
\* counted from 1, and each section is followed by one '---' separator.
C18_MarkdownSections ==
    (op = "export_dreams_advanced" /\ Lower(arg.format_type) = FormatMarkdown) =>
        LET n_records == Len(arg.dreams_data)
            headings == HeadingStarts(ret)
            rules == RuleStarts(ret)
            nth(n) == CHOOSE i \in headings : Cardinality({j \in headings : j <= i}) = n
        IN  /\ Cardinality(headings) = n_records
            /\ Cardinality(rules) = n_records
            /\ \A n \in 1..n_records :
                  /\ LineAt(ret, nth(n))
                       = MdDream \o IntStr(n) \o MdDash \o arg.dreams_data[n].date
                  /\ \E r \in rules :
                        /\ r > nth(n)
                        /\ \A h \in headings : h > nth(n) => r < h

(***************************************************************************)
(* Claims on the session: the lucid flag                                   *)
(***************************************************************************)

\* C19: the lucid flag of a stored record is the checkbox's value whatever
\* the text is, so two saves that differ only in their text store the same
\* flag, and the record has no field for the lucidity detector's result.
C19_LucidIsUserAsserted ==
    (op = "Analyze & Save Dream" /\ ret.kind = "success") =>
        LET stored == dreams[Len(dreams)]
        IN  /\ stored.text = arg.dream_text
            /\ stored.lucid = arg.lucid
            /\ DOMAIN stored = {entry_keys[k] : k \in 1..Len(entry_keys)}

\* C19 witness: a text the detector rates as likely lucid was saved with the
\* checkbox off, and the record says not lucid.
C19_Witness ==
    /\ op = "Analyze & Save Dream"
    /\ ret.kind = "success"
    /\ detect_lucidity_indicators(arg.dream_text).likely_lucid
    /\ ~arg.lucid
    /\ ~dreams[Len(dreams)].lucid

(***************************************************************************)
(* utils.py: DataProcessor.clean_text                                      *)
(***************************************************************************)

\* text.strip()
Strip(s) ==
    IF \A i \in 1..Len(s) : s[i] \in WhiteSpace THEN <<>>
    ELSE LET first == CHOOSE i \in 1..Len(s) :
                        /\ s[i] \notin WhiteSpace
                        /\ \A j \in 1..(i - 1) : s[j] \in WhiteSpace
         IN  SubSeq(s, first, first + StripLen(s) - 1)

\* re.sub(r'\s+', ' ', s): each run of white space becomes one space.
CollapseWhiteSpace(s) ==
    LET run_start == [i \in 1..Len(s) |->
                        s[i] \notin WhiteSpace \/ i = 1 \/ s[i - 1] \notin WhiteSpace]
        spaced == [i \in 1..Len(s) |-> IF s[i] \in WhiteSpace THEN " " ELSE s[i]]
    IN  Filter(spaced, run_start, 1)

\* The characters the class [^\w\s.,!?;:\-\'"()] does not match.
KeptPunctuation == {".", ",", "!", "?", ";", ":", "-", "'", "\"", "(", ")"}

\* re.sub(r'[^\w\s.,!?;:\-\'"()]', '', s): every other character is removed.
RemoveSpecial(s) ==
    Filter(s, [i \in 1..Len(s) |->
                  IsWordChar(s[i]) \/ s[i] \in WhiteSpace \/ s[i] \in KeptPunctuation], 1)

clean_text(text) ==
    IF Len(text) = 0 THEN <<>>
    ELSE RemoveSpecial(CollapseWhiteSpace(Strip(text)))

(***************************************************************************)
(* The text cleaner on its own                                             *)
(***************************************************************************)

\* The longest text cleaned.
MaxCleanLen == 4

\* Letters, white space, a punctuation mark that is kept and a special
\* character that is removed.
CleanChars == {"a", "B", " ", "\n", "!", "@"}

CleanTexts == UNION { [1..n -> CleanChars] : n \in 0..MaxCleanLen }

InitCleaner ==
    /\ dreams = <<>>
    /\ today = SampleDay
    /\ op = "input"
    /\ arg \in CleanTexts
    /\ ret = <<>>

CleanText ==
    /\ op = "input"
    /\ op' = "clean_text"
    /\ ret' = clean_text(arg)
    /\ UNCHANGED <<dreams, today, arg>>

NextCleaner == CleanText

SpecCleaner == InitCleaner /\ [][NextCleaner]_vars

\* C20: for every input the output of clean_text has no white space at
\* either end and no two white space characters in a row, and clean_text
\* applied to the output returns it unchanged.
C20_CleanTextNormalizes ==
    op = "clean_text" =>
        /\ Len(ret) > 0 => (ret[1] \notin WhiteSpace /\ ret[Len(ret)] \notin WhiteSpace)
        /\ \A i \in 1..(Len(ret) - 1) :
              ~(ret[i] \in WhiteSpace /\ ret[i + 1] \in WhiteSpace)
        /\ clean_text(ret) = ret

(***************************************************************************)
(* Claims on the session: the length of the store                          *)
(***************************************************************************)

\* C21: the length of the store changes only in an "Analyze & Save Dream"
\* step; a save with an empty text reports an error and leaves the store as
\* it was; a save with a non-empty text that completes (no exception leaves
\* the handler) makes the store one record longer, the new record last and
\* the records before it unchanged.
C21_LengthChangesOnlyBySave ==
    [][ /\ Len(dreams') # Len(dreams) => op' = "Analyze & Save Dream"
        /\ (op' = "Analyze & Save Dream" /\ Len(arg'.dream_text) = 0) =>
              (ret'.kind = "error" /\ dreams' = dreams)
        /\ (op' = "Analyze & Save Dream" /\ Len(arg'.dream_text) > 0
               /\ ret'.kind # "exception") =>
              /\ ret'.kind = "success"
              /\ Len(dreams') = Len(dreams) + 1
              /\ SubSeq(dreams', 1, Len(dreams)) = dreams
              /\ dreams'[Len(dreams')].text = arg'.dream_text
              /\ dreams'[Len(dreams')].date = strftime(arg'.dream_date) ]_vars

\* C21 witness: after a save with an empty text was refused on a store of
\* two records, nothing was added.
C21_Witness ==
    /\ op = "Analyze & Save Dream"
    /\ Len(arg.dream_text) = 0
    /\ ret.kind = "error"
    /\ Len(dreams) = 2
    /\ dreams[1].text # dreams[2].text

====
